---- MODULE Spec2Model ----
(***************************************************************************)
(* A model of the multi-source acquisition engine of my_paperscraper:      *)
(* the strategy functions of pdf/fallbacks.py, the strategy chain save_pdf *)
(* and the orchestrator save_pdf_from_dump_new of pdf/pdf.py.              *)
(*                                                                         *)
(* Strings are sequences of tokens; a token is a run of characters that no *)
(* pattern of the code splits ("arxiv", ".", "/", "_", ...).  HTTP bodies  *)
(* are sequences of bytes.  Every request of the code takes its response   *)
(* from an oracle, a sequence of responses consumed in order.              *)
(***************************************************************************)
EXTENDS Integers, Sequences, FiniteSets, TLC

\* Python's None, as a token sequence so that it compares with strings
None == <<"None">>

\* the values True and False of a record field, as json.loads gives them;
\* Truthy is Python's truth test of a field that holds True, False or None
PyTrue == <<"True">>
PyFalse == <<"False">>
Py(b) == IF b THEN PyTrue ELSE PyFalse
Truthy(v) == v = PyTrue

(***************************************************************************)
(* Python string operations, on token sequences.                          *)
(***************************************************************************)
Min(a, b) == IF a <= b THEN a ELSE b

\* s[i:i+len(pat)] == pat
MatchAt(s, pat, i) ==
    /\ i >= 1
    /\ i + Len(pat) - 1 <= Len(s)
    /\ \A k \in 1..Len(pat) : s[i + k - 1] = pat[k]

\* pat in s
Contains(s, pat) == \E i \in 1..(Len(s) + 1) : MatchAt(s, pat, i)

\* s.startswith(pat)
StartsWith(s, pat) == MatchAt(s, pat, 1)

\* least index >= from at which pat occurs in s, 0 when there is none
RECURSIVE FindFrom(_, _, _)
FindFrom(s, pat, from) ==
    IF from + Len(pat) - 1 > Len(s) THEN 0
    ELSE IF MatchAt(s, pat, from) THEN from
    ELSE FindFrom(s, pat, from + 1)

\* s.split(sep), sep non-empty: the list of pieces
RECURSIVE Split(_, _)
Split(s, sep) ==
    LET i == FindFrom(s, sep, 1) IN
    IF i = 0 THEN <<s>>
    ELSE <<SubSeq(s, 1, i - 1)>> \o Split(SubSeq(s, i + Len(sep), Len(s)), sep)

\* s.replace(a, b) for one-token a and b
Replace(s, a, b) == [i \in 1..Len(s) |-> IF s[i] = a THEN b ELSE s[i]]

\* content[:n]
Take(body, n) == SubSeq(body, 1, Min(n, Len(body)))

(***************************************************************************)
(* Identifiers (DOIs) the model draws from.                                *)
(***************************************************************************)
DoiPlain      == <<"10", ".", "1000", "/", "xyz">>
DoiUnderscore == <<"10", ".", "1000", "_", "xyz">>
DoiOther      == <<"10", ".", "2000", "/", "abc">>
DoiArxivNew   == <<"10", ".", "48550", "/", "arxiv", ".", "2101", ".", "00001">>
DoiArxivOld   == <<"10", ".", "48550", "/", "arxiv", ".", "9901001">>
DoiArxivV     == <<"10", ".", "48550", "/", "arxiv", ".", "2101", ".", "00001", ".", "v2">>
DoiArxivNoDot == <<"10", ".", "1000", "/", "arxiv", "2020">>
DoiElife      == <<"10", ".", "7554", "/", "eLife", ".", "00001">>

ChainDois == {DoiPlain, DoiArxivNew, DoiArxivOld, DoiArxivV, DoiArxivNoDot, DoiElife}

\* the identifiers of the dump files
OrchDois == {DoiPlain, DoiOther, DoiUnderscore}
AllDois == ChainDois \cup OrchDois

(***************************************************************************)
(* HTTP responses.  st = "exc": requests.get or raise_for_status raised    *)
(* (connection error, timeout, non-2xx status).  st = "ok": a 2xx response *)
(* with the given body; page is what the parser finds in it.               *)
(***************************************************************************)
PDFMagic    == <<"%", "P", "D", "F">>
BodyPdf     == <<"%", "P", "D", "F", "-", "1">>
BodyShort   == <<"%", "P", "D">>
BodyHtml    == <<"<", "h", "t", "m", "l">>
BodyShifted == <<" ", "%", "P", "D", "F">>
BiocErrorPrefix == <<"[Error] : No result can be found. <BR><HR><B> - https://www.ncbi.nlm.nih.gov/research/bionlp/RESTful/">>
BodyBiocErr == BiocErrorPrefix \o <<"pmcoa.cgi">>
BodyXml     == <<"<", "?", "x", "m", "l">>

Bodies == {BodyPdf, BodyShort, BodyHtml, BodyShifted}

\* a signature test that looks for the magic bytes anywhere in the body
IsPDF_Anywhere(body) == Contains(body, PDFMagic)

\* response.content[:4] == b"%PDF"
IsPDF(body) == Take(body, 4) = PDFMagic

Exc == [st |-> "exc", body |-> <<>>, page |-> "na"]
Ok(body, page) == [st |-> "ok", body |-> body, page |-> page]

\* the responses to a request for an artifact
FileResponses == {Exc} \cup {Ok(b, "na") : b \in Bodies}

(***************************************************************************)
(* The outcome of one call of a strategy function.                         *)
(*   ok, url : the returned pair (success, url)                            *)
(*   raised  : the call ended by an exception propagating to the caller    *)
(*   writes  : the files written, in order, each [ext, body]               *)
(*   nreq    : the number of HTTP requests issued                          *)
(*   accepted: the index in the oracle of the response written, or 0       *)
(***************************************************************************)
Outcome(ok, url, raised, writes, nreq, accepted) ==
    [ok |-> ok, url |-> url, raised |-> raised, writes |-> writes,
     nreq |-> nreq, accepted |-> accepted]

Declined(nreq) == Outcome(FALSE, None, FALSE, <<>>, nreq, 0)
Raised(nreq)   == Outcome(FALSE, None, TRUE, <<>>, nreq, 0)
Wrote(ext, body, url, nreq) ==
    Outcome(TRUE, url, FALSE, <<[ext |-> ext, body |-> body]>>, nreq, nreq)

(***************************************************************************)
(* fallbacks.py: the strategy functions.  net is the oracle of the call:   *)
(* net[i] answers the i-th request the function issues.                    *)
(***************************************************************************)
ArxivCategories == <<"physics", "astro-ph", "cond-mat">>

\* the loop "for i in temp" of fallback_arxiv, from the i-th subject class on
RECURSIVE arxiv_old_style(_, _, _)
arxiv_old_style(rest, net, i) ==
    IF i > Len(ArxivCategories) THEN Declined(i - 1)
    ELSE IF net[i].st = "ok" /\ IsPDF(net[i].body)
         THEN Wrote("pdf", net[i].body,
                    <<"https://arxiv.org/pdf/", ArxivCategories[i], "/">> \o rest, i)
         ELSE arxiv_old_style(rest, net, i + 1)

fallback_arxiv(doi, net) ==
    IF Contains(doi, <<"arxiv">>)
    THEN LET parts == Split(doi, <<"arxiv", ".">>) IN
         IF Len(parts) < 2 THEN Raised(0)    \* doi.split("arxiv.")[1]: IndexError
         ELSE LET rest  == parts[2]
                  lenth == Len(Split(rest, <<".">>))
              IN  IF lenth = 1 THEN arxiv_old_style(rest, net, 1)
                  ELSE IF lenth = 2
                       THEN IF net[1].st = "ok" /\ IsPDF(net[1].body)
                            THEN Wrote("pdf", net[1].body,
                                       <<"https://arxiv.org/pdf/">> \o rest, 1)
                            ELSE Declined(1)
                       ELSE Declined(0)
    ELSE Declined(0)

\* net[1]: the landing page of https://doi.org/{doi}; net[2]: citation_pdf_url
fallback_doi(doi, net) ==
    IF net[1].st = "exc" THEN Declined(1)
    ELSE IF net[1].page # "meta_url" THEN Declined(1)
    ELSE IF net[2].st = "exc" THEN Declined(2)
    ELSE IF ~IsPDF(net[2].body) THEN Declined(2)
    ELSE Wrote("pdf", net[2].body, <<"citation_pdf_url of ">> \o doi, 2)

\* net[1]: the mirror's page for the doi; net[2]: the iframe/embed source
fallback_sci_hub(doi, net) ==
    IF net[1].st = "exc" THEN Declined(1)
    ELSE IF net[1].page \notin {"iframe", "embed"} THEN Declined(1)  \* AttributeError, KeyError: caught
    ELSE IF net[2].st = "exc" THEN Declined(2)
    ELSE IF ~IsPDF(net[2].body) THEN Declined(2)
    ELSE Wrote("pdf", net[2].body, <<"https:", "frame src of ">> \o doi, 2)

\* net[1]: the DOI-to-PMCID converter; net[2]: the BioC XML endpoint
fallback_bioc_pmc(doi, net) ==
    IF net[1].st = "exc" THEN Declined(1)
    ELSE IF net[1].page # "pmcid" THEN Declined(1)
    ELSE IF net[2].st = "exc" THEN Declined(2)
    ELSE IF StartsWith(net[2].body, BiocErrorPrefix) THEN Declined(2)
    ELSE Wrote("xml", net[2].body, <<"https://www.ncbi.nlm.nih.gov/research/bionlp/RESTful/pmcoa.cgi/BioC_xml/", "PMCID", "/unicode">>, 2)

\* the retry loop of fallback_wiley_api, from attempt (0-based) on
RECURSIVE wiley_attempts(_, _, _)
wiley_attempts(net, max_attempts, attempt) ==
    IF attempt >= max_attempts THEN Declined(attempt)
    ELSE IF net[attempt + 1].st = "ok" /\ IsPDF(net[attempt + 1].body)
         THEN Wrote("pdf", net[attempt + 1].body, None, attempt + 1)
         ELSE wiley_attempts(net, max_attempts, attempt + 1)

\* the function returns the bare success flag: url stays None
fallback_wiley_api(doi, net, max_attempts) == wiley_attempts(net, max_attempts, 0)

\* what the same loop does in time: its requests and its time.sleep calls,
\* in order, up to the return (lines 59-92)
RECURSIVE wiley_events(_, _, _)
wiley_events(net, max_attempts, attempt) ==
    IF attempt >= max_attempts THEN <<"sleep 10", "return">>
    ELSE IF net[attempt + 1].st = "ok" /\ IsPDF(net[attempt + 1].body)
         THEN <<"request", "sleep 10", "return">>
    ELSE IF net[attempt + 1].st = "exc"
         THEN <<"request">>
              \o (IF attempt < max_attempts - 1 THEN <<"sleep 20">> ELSE <<>>)
              \o wiley_events(net, max_attempts, attempt + 1)
    ELSE <<"request">> \o wiley_events(net, max_attempts, attempt + 1)

(***************************************************************************)
(* The eLife index: ELIFE_XML_INDEX is None until the first call, then the *)
(* (article number, version) entries of the listing.  The model keeps the  *)
(* entries as a set; the code keeps, per article, the list sorted by       *)
(* version and takes its maximum.                                          *)
(***************************************************************************)
NoIndex == [built |-> FALSE, entries |-> {}]

\* the paths of the listing that match articles/elife-(\d+)-v(\d+)\.xml
IndexOf(listing) == [built |-> TRUE, entries |-> {e \in listing : e.kind = "article"}]

\* as get_elife_xml_index, but without the test of the cache
get_elife_xml_index_Refetch(index, r) ==
    IF r.st = "exc"
    THEN [index |-> [built |-> TRUE, entries |-> {}], raised |-> TRUE, nreq |-> 1]
    ELSE [index |-> IndexOf(r.page), raised |-> FALSE, nreq |-> 1]

\* r: the response to the git tree request, issued only when the index is None
get_elife_xml_index(index, r) ==
    IF index.built THEN [index |-> index, raised |-> FALSE, nreq |-> 0]
    ELSE IF r.st = "exc"
         THEN [index |-> [built |-> TRUE, entries |-> {}], raised |-> TRUE, nreq |-> 1]
         ELSE [index |-> IndexOf(r.page), raised |-> FALSE, nreq |-> 1]

\* max(candidate_files, key=lambda x: x[0])
LatestVersion(entries, num) ==
    CHOOSE v \in {e.ver : e \in {x \in entries : x.num = num}} :
        \A e \in entries : e.num = num => e.ver <= v

\* net[1]: the git tree listing; net[2]: the raw XML file
\* listing: the number of git tree requests the call issued
fallback_elife_xml(doi, index, net) ==
    LET parts == Split(doi, <<"eLife", ".">>) IN
    IF Len(parts) < 2 THEN [out |-> Declined(0), index |-> index, listing |-> 0]
    ELSE LET article_num == parts[2]
             g == get_elife_xml_index(index, net[1])
             found == {e \in g.index.entries : <<e.num>> = article_num}
             res(out) == [out |-> out, index |-> g.index, listing |-> g.nreq]
         IN  IF g.raised THEN res(Raised(g.nreq))
             ELSE IF found = {} THEN res(Declined(g.nreq))
             ELSE IF net[2].st = "exc" THEN res(Declined(g.nreq + 1))
             ELSE res(Outcome(TRUE,
                              <<"https://raw.githubusercontent.com/elifesciences/elife-article-xml/master/articles/elife-",
                                article_num[1], "-v", LatestVersion(g.index.entries, article_num[1])>>,
                              FALSE, <<[ext |-> "xml", body |-> net[2].body]>>, g.nreq + 1, 2))

(***************************************************************************)
(* The files <destination stem>.pdf and <destination stem>.xml.            *)
(***************************************************************************)
NoFile == <<"<no file>">>
Exts == {"pdf", "xml"}
NoFiles == [e \in Exts |-> NoFile]

\* open(output_path.with_suffix("." + ext), "wb+").write(body), in order
RECURSIVE ApplyWrites(_, _)
ApplyWrites(files, writes) ==
    IF writes = <<>> THEN files
    ELSE ApplyWrites([files EXCEPT ![Head(writes).ext] = Head(writes).body], Tail(writes))

(***************************************************************************)
(* Oracles: the responses each strategy's requests may get.                *)
(***************************************************************************)
LandingResponses == {Exc} \cup {Ok(BodyHtml, p) : p \in {"meta_url", "meta_empty", "no_meta"}}
MirrorResponses  == {Exc} \cup {Ok(BodyHtml, p) : p \in {"iframe", "embed", "no_frame", "no_src"}}
ConverterResponses == {Exc} \cup {Ok(BodyHtml, p) : p \in {"pmcid", "no_pmcid", "no_records", "bad_json"}}
XmlResponses == {Exc} \cup {Ok(b, "na") : b \in {BodyXml, BodyBiocErr, BodyHtml}}

ArxivNets  == [1..3 -> FileResponses]
DoiNets    == {<<a, b>> : a \in LandingResponses, b \in FileResponses}
SciHubNets == {<<a, b>> : a \in MirrorResponses, b \in FileResponses}
BiocNets   == {<<a, b>> : a \in ConverterResponses, b \in XmlResponses}

(***************************************************************************)
(* pdf.py, save_pdf.  outs gives, for each strategy of the chain, the      *)
(* outcome its call returns if the chain invokes it.  The chain state is   *)
(* the locals success, url, outputtype, plus the log of invocations.       *)
(***************************************************************************)
\* the artifact kinds "pdf" and "xml", as token sequences
Pdf == <<"pdf">>
Xml == <<"xml">>

ChainStart ==
    [success |-> FALSE, url |-> None, outputtype |-> None,
     invoked |-> <<>>, writes |-> <<>>, raised |-> FALSE]

\* success, url = FALLBACKS[fn](...); if success: outputtype = kind
Invoke(st, fn, out, kind) ==
    IF out.raised
    THEN [st EXCEPT !.invoked = Append(@, [fn |-> fn, ok |-> FALSE]), !.raised = TRUE]
    ELSE [success    |-> out.ok,
          url        |-> out.url,
          outputtype |-> IF out.ok THEN kind ELSE st.outputtype,
          invoked    |-> Append(st.invoked, [fn |-> fn, ok |-> out.ok]),
          writes     |-> st.writes \o out.writes,
          raised     |-> FALSE]

\* the preprint resolver tried for every identifier
after_arxiv_Always(doi, outs) == Invoke(ChainStart, "arxiv", outs.arxiv, Pdf)

\* lines 75-78
after_arxiv(doi, outs) ==
    IF ~ChainStart.success /\ Contains(doi, <<"arxiv">>)
    THEN Invoke(ChainStart, "arxiv", outs.arxiv, Pdf)
    ELSE ChainStart

\* lines 79-82
after_doi(doi, outs) ==
    LET st == after_arxiv(doi, outs) IN
    IF st.raised THEN st
    ELSE IF ~st.success THEN Invoke(st, "doi", outs.doi, Pdf) ELSE st

\* the mirror tried whatever the earlier strategies returned
after_sci_hub_Unguarded(doi, outs) ==
    LET st == after_doi(doi, outs) IN
    IF st.raised THEN st ELSE Invoke(st, "sci_hub", outs.sci_hub, Pdf)

\* lines 84-87
after_sci_hub(doi, outs) ==
    LET st == after_doi(doi, outs) IN
    IF st.raised THEN st
    ELSE IF ~st.success THEN Invoke(st, "sci_hub", outs.sci_hub, Pdf) ELSE st

\* lines 89-93
after_bioc_pmc(doi, outs) ==
    LET st == after_sci_hub(doi, outs) IN
    IF st.raised THEN st
    ELSE IF ~st.success THEN Invoke(st, "bioc_pmc", outs.bioc_pmc, Xml) ELSE st

\* Path.with_suffix: the last "." suffix of the final component, if any, is
\* replaced by "." + ext
RECURSIVE LastIndexOf(_, _, _)
LastIndexOf(s, tok, i) ==
    IF i = 0 THEN 0 ELSE IF s[i] = tok THEN i ELSE LastIndexOf(s, tok, i - 1)

with_suffix(path, ext) ==
    LET slash == LastIndexOf(path, "/", Len(path))
        dot   == LastIndexOf(path, ".", Len(path))
        stem  == IF dot > slash + 1 /\ dot < Len(path)
                 THEN SubSeq(path, 1, dot - 1) ELSE path
    IN  stem \o <<".", ext>>

\* the record save_pdf returns (or leaves behind when a strategy raises)
save_pdf(paper_metadata, filepath, outs) ==
    LET st == after_bioc_pmc(paper_metadata.doi, outs) IN
    [paper   |-> IF st.raised
                 THEN [paper_metadata EXCEPT !.success = PyFalse, !.type = None,
                                             !.path = None, !.url = None]
                 ELSE [paper_metadata EXCEPT
                          !.success = Py(st.success),
                          !.type    = st.outputtype,
                          !.url     = st.url,
                          !.path    = IF st.success
                                      THEN with_suffix(filepath, st.outputtype[1])
                                      ELSE None],
     invoked |-> st.invoked,
     writes  |-> st.writes,
     raised  |-> st.raised]

(***************************************************************************)
(* State.                                                                  *)
(***************************************************************************)
VARIABLES
    call,             \* the last direct call of a strategy function
    dest,             \* the files at the destination stem of call and saved
    ELIFE_XML_INDEX,  \* fallbacks.py, the module-level cache
    saved,            \* the last call of save_pdf
    dump_file,        \* the records of the file at dump_path, one per line
    input_file,       \* what dump_file held when save_pdf_from_dump_new was called
    metadict,         \* identifier -> record, in insertion order
    futures,          \* future_to_paper: one future per task, in submission order
    disk,             \* the artifact files under the parent of pdf_path
    stop_event,       \* "None" (not given), "clear" or "set"
    ip_pool,          \* "None" (no pool given), "empty" (get_proxies gives none) or "proxy"
    orch_pc,          \* where save_pdf_from_dump_new is
    detected,         \* what the first quota or stop detection saw
    flushed,          \* f_save_metadata has run
    prior,            \* which run of save_pdf_from_dump_new this is, and what the first left
    month_call,       \* the last call of month_folder
    s3,               \* the archive search of the last call of fallback_s3
    saved_old,        \* the last call of save_pdf_old, and the answers the Elsevier API gave so far
    out_dir,          \* the directory at pdf_path: "present", "missing" or "unwritable"
    index_calls,      \* the threads inside get_elife_xml_index
    driver            \* download_pdf of test_download_pdf.py and its file record_pdf.txt

callVars == <<call, dest, ELIFE_XML_INDEX, saved>>
orchVars == <<dump_file, input_file, metadict, futures, disk, stop_event, ip_pool,
              orch_pc, detected, flushed>>
sideVars == <<prior, month_call, s3, saved_old, out_dir, index_calls, driver>>
vars == <<call, dest, ELIFE_XML_INDEX, saved, dump_file, input_file, metadict, futures,
          disk, stop_event, ip_pool, orch_pc, detected, flushed, prior, month_call, s3,
          saved_old, out_dir, index_calls, driver>>

max_attempts == 2

NotDetected == [seen |-> FALSE, count |-> 0, running |-> 0]

\* the first run, nothing left by an earlier one
NoPrior == [run |-> 1, store |-> <<>>, succeeded |-> FALSE, cut |-> FALSE]

NoMonth == [called |-> FALSE]
NoS3 == [pc |-> "idle"]

\* no thread is inside get_elife_xml_index
NoIndexCalls == [listing |-> {}, threads |-> <<>>]

\* download_pdf is not running
NoDriver == [pc |-> "none"]

NoSavedOld ==
    [called |-> FALSE, paper |-> None, invoked |-> <<>>, writes |-> <<>>, raised |-> FALSE,
     api_keys |-> None, elsevier |-> <<>>]

NoCall == [fn |-> "none", doi |-> None, net |-> <<>>, out |-> Declined(0), before |-> NoFiles]

NoSaved == [paper |-> [doi |-> None, is_materials |-> PyTrue, success |-> PyFalse,
                       type |-> None, path |-> None, url |-> None],
            invoked |-> <<>>, writes |-> <<>>, raised |-> FALSE,
            before |-> NoFiles, called |-> FALSE,
            given |-> None, request |-> None, filepath |-> None, error |-> "none"]

\* nothing called yet, no file at the destination, the index not built
InitIdle ==
    /\ call = NoCall
    /\ dest = NoFiles
    /\ ELIFE_XML_INDEX = NoIndex
    /\ saved = NoSaved
    /\ dump_file = <<>>
    /\ input_file = <<>>
    /\ metadict = <<>>
    /\ futures = <<>>
    /\ disk = {}
    /\ stop_event = "None"
    /\ ip_pool = "None"
    /\ orch_pc = "idle"
    /\ detected = NotDetected
    /\ flushed = FALSE
    /\ prior = NoPrior
    /\ month_call = NoMonth
    /\ s3 = NoS3
    /\ saved_old = NoSavedOld
    /\ out_dir = "present"
    /\ index_calls = NoIndexCalls
    /\ driver = NoDriver

(***************************************************************************)
(* Direct calls of the strategy functions, each with any identifier and    *)
(* any oracle.                                                             *)
(***************************************************************************)
Called(fn, doi, net, out) ==
    /\ call = NoCall
    /\ call' = [fn |-> fn, doi |-> doi, net |-> net, out |-> out, before |-> dest]
    /\ dest' = IF out.raised THEN dest ELSE ApplyWrites(dest, out.writes)

CallArxiv ==
    \E doi \in ChainDois, net \in ArxivNets :
        /\ Called("arxiv", doi, net, fallback_arxiv(doi, net))
        /\ UNCHANGED <<ELIFE_XML_INDEX, saved, orchVars, sideVars>>

CallDoi ==
    \E doi \in ChainDois, net \in DoiNets :
        /\ Called("doi", doi, net, fallback_doi(doi, net))
        /\ UNCHANGED <<ELIFE_XML_INDEX, saved, orchVars, sideVars>>

CallSciHub ==
    \E doi \in ChainDois, net \in SciHubNets :
        /\ Called("sci_hub", doi, net, fallback_sci_hub(doi, net))
        /\ UNCHANGED <<ELIFE_XML_INDEX, saved, orchVars, sideVars>>

CallBiocPmc ==
    \E doi \in ChainDois, net \in BiocNets :
        /\ Called("bioc_pmc", doi, net, fallback_bioc_pmc(doi, net))
        /\ UNCHANGED <<ELIFE_XML_INDEX, saved, orchVars, sideVars>>

CallWiley ==
    \E doi \in ChainDois, net \in [1..max_attempts -> FileResponses] :
        /\ Called("wiley", doi, net,
                  fallback_wiley_api(doi, net, max_attempts)
                     @@ [events |-> wiley_events(net, max_attempts, 0)])
        /\ UNCHANGED <<ELIFE_XML_INDEX, saved, orchVars, sideVars>>

ElifeListings ==
    { {},
      {[kind |-> "article", num |-> "00001", ver |-> 1],
       [kind |-> "article", num |-> "00001", ver |-> 3],
       [kind |-> "article", num |-> "00001", ver |-> 2],
       [kind |-> "other", num |-> "README", ver |-> 0]},
      {[kind |-> "article", num |-> "00002", ver |-> 1]} }

ElifeNets ==
    {<<a, b>> : a \in {Exc} \cup {Ok(BodyHtml, l) : l \in ElifeListings},
                b \in XmlResponses}

CallElife ==
    \E doi \in ChainDois, net \in ElifeNets :
        LET r == fallback_elife_xml(doi, ELIFE_XML_INDEX, net) IN
        /\ Called("elife", doi, net, r.out @@ [listing |-> r.listing])
        /\ ELIFE_XML_INDEX' = r.index
        /\ UNCHANGED <<saved, orchVars, sideVars>>

\* the caller takes the outcome; the files and the index stay
CallReturns ==
    /\ call # NoCall
    /\ call' = NoCall
    /\ UNCHANGED <<dest, ELIFE_XML_INDEX, saved, orchVars, sideVars>>

StratNext ==
    CallArxiv \/ CallDoi \/ CallSciHub \/ CallBiocPmc \/ CallWiley \/ CallElife \/ CallReturns

SpecStrategies == InitIdle /\ [][StratNext]_vars

(***************************************************************************)
(* Calls of save_pdf.  Each strategy's outcome is one its function can     *)
(* return for the identifier under some oracle.                            *)
(***************************************************************************)
ArxivOutcomes  == [d \in AllDois |-> {fallback_arxiv(d, net) : net \in ArxivNets}]
DoiOutcomes    == [d \in AllDois |-> {fallback_doi(d, net) : net \in DoiNets}]
SciHubOutcomes == [d \in AllDois |-> {fallback_sci_hub(d, net) : net \in SciHubNets}]
BiocOutcomes   == [d \in AllDois |-> {fallback_bioc_pmc(d, net) : net \in BiocNets}]

ChainOutcomes(d) ==
    [arxiv : ArxivOutcomes[d], doi : DoiOutcomes[d],
     sci_hub : SciHubOutcomes[d], bioc_pmc : BiocOutcomes[d]]

\* filename = paper[key_to_save].replace("/", "_"); os.path.join(pdf_path, filename + ".pdf")
pdf_file(pdf_path, doi) == pdf_path \o <<"/">> \o Replace(doi, "/", "_") \o <<".", "pdf">>

OutDir == <<"pdf", "/", "keyword">>

NewPaper(d) ==
    [doi |-> d, is_materials |-> PyTrue, success |-> PyFalse,
     type |-> None, path |-> None, url |-> None]

\* a record that carries the result of an earlier success
StalePaper(d) ==
    [doi |-> d, is_materials |-> PyTrue, success |-> PyTrue, type |-> Pdf,
     path |-> <<"old", "/">> \o Replace(d, "/", "_") \o <<".", "pdf">>,
     url |-> <<"https://doi.org/">> \o d]

WithoutDoi(paper) == [k \in DOMAIN paper \ {"doi"} |-> paper[k]]

\* the destination without the suffix (save_pdf's docstring: "with or without suffix")
pdf_stem(pdf_path, doi) == pdf_path \o <<"/">> \o Replace(doi, "/", "_")

\* the arguments of a call: what paper_metadata is and whether it has the key
\* "doi", what filepath is, whether the parent directory of filepath exists
Requests ==
    [metadata : {"dict", "list"}, has_doi : BOOLEAN,
     filepath : {"str with suffix", "str stem", "Path"}, parent_exists : BOOLEAN]

\* a validation that does not look at the parent directory
validate_NoParentCheck(req) ==
    IF req.metadata # "dict" THEN "TypeError"
    ELSE IF ~req.has_doi THEN "KeyError"
    ELSE IF req.filepath = "Path" THEN "TypeError"
    ELSE "none"

\* lines 50-60: the error save_pdf raises for the arguments, if any
validate(req) ==
    IF req.metadata # "dict" THEN "TypeError"
    ELSE IF ~req.has_doi THEN "KeyError"
    ELSE IF req.filepath = "Path" THEN "TypeError"
    ELSE IF ~req.parent_exists THEN "ValueError"
    ELSE "none"

SavePdf ==
    /\ ~saved.called
    /\ \E d \in ChainDois, req \in Requests :
         \E given \in {NewPaper(d), StalePaper(d)} :
            LET paper == IF req.has_doi THEN given ELSE WithoutDoi(given)
                filepath == IF req.filepath = "str stem"
                            THEN pdf_stem(OutDir, d) ELSE pdf_file(OutDir, d)
            IN  IF validate(req) # "none"
                THEN /\ saved' = [NoSaved EXCEPT !.paper = paper, !.given = paper,
                                                  !.request = req, !.filepath = filepath,
                                                  !.error = validate(req), !.before = dest,
                                                  !.called = TRUE]
                     /\ UNCHANGED dest
                ELSE \E outs \in ChainOutcomes(d) :
                        LET r == save_pdf(paper, filepath, outs) IN
                        /\ saved' = [paper |-> r.paper, invoked |-> r.invoked,
                                     writes |-> r.writes, raised |-> r.raised,
                                     before |-> dest, called |-> TRUE, given |-> paper,
                                     request |-> req, filepath |-> filepath,
                                     error |-> "none"]
                        /\ dest' = ApplyWrites(dest, r.writes)
    /\ UNCHANGED <<call, ELIFE_XML_INDEX, orchVars, sideVars>>

\* the caller takes the record; the files stay
SavePdfReturns ==
    /\ saved.called
    /\ saved' = NoSaved
    /\ UNCHANGED <<call, dest, ELIFE_XML_INDEX, orchVars, sideVars>>

ChainNext == SavePdf \/ SavePdfReturns

SpecChain == InitIdle /\ [][ChainNext]_vars

(***************************************************************************)
(* pdf.py, save_pdf_from_dump_new and _process_single_paper.               *)
(*                                                                         *)
(* The dump file is the sequence of its records.  metadict is a Python     *)
(* dict: the sequence of its values in insertion order, one per key.  The  *)
(* tasks hold the very objects metadict holds, so what a task assigns to   *)
(* its paper is assigned to the entry of metadict.                         *)
(***************************************************************************)
MaxLines == 3
max_workers == 2
max_pdf_num == 1

SiblingDir == <<"pdf", "/", "earlier_keyword">>
Dirs == {OutDir, SiblingDir}

File(dir, name, ext) == [dir |-> dir, name |-> name, ext |-> ext]
PathOf(f) == f.dir \o <<"/">> \o f.name \o <<".", f.ext>>

PendingLine(d) == NewPaper(d)
SkippedLine(d) == [NewPaper(d) EXCEPT !.is_materials = PyFalse]
DoneLine(d) ==
    [doi |-> d, is_materials |-> PyTrue, success |-> PyTrue, type |-> Pdf,
     path |-> PathOf(File(SiblingDir, Replace(d, "/", "_"), "pdf")),
     url |-> <<"https://doi.org/">> \o d]

Lines ==
    {PendingLine(d) : d \in OrchDois \cup {None}} \cup {DoneLine(DoiPlain), SkippedLine(DoiOther)}
DumpFiles == UNION {[1..n -> Lines] : n \in 0..MaxLines}

InitialDisks ==
    { {},
      {File(SiblingDir, Replace(DoiPlain, "/", "_"), "xml")},
      {File(SiblingDir, Replace(DoiPlain, "/", "_"), "pdf"),
       File(OutDir, Replace(DoiPlain, "/", "_"), "pdf")} }

Init ==
    /\ call = NoCall
    /\ dest = NoFiles
    /\ ELIFE_XML_INDEX = NoIndex
    /\ saved = NoSaved
    /\ dump_file \in DumpFiles
    /\ input_file = dump_file
    /\ metadict = <<>>
    /\ futures = <<>>
    /\ disk \in InitialDisks
    /\ stop_event \in {"None", "clear"}
    /\ ip_pool \in {"None", "proxy"}
    /\ orch_pc = "start"
    /\ detected = NotDetected
    /\ flushed = FALSE
    /\ prior = NoPrior
    /\ month_call = NoMonth
    /\ s3 = NoS3
    /\ saved_old = NoSavedOld
    /\ out_dir = "present"
    /\ index_calls = NoIndexCalls
    /\ driver = NoDriver

\* a dict assignment that adds a second entry for a key already present
PutEntry_Append(md, paper) == Append(md, paper)

\* metadict[paper["doi"]] = paper
PutEntry(md, paper) ==
    IF \E i \in 1..Len(md) : md[i].doi = paper.doi
    THEN [i \in 1..Len(md) |-> IF md[i].doi = paper.doi THEN paper ELSE md[i]]
    ELSE Append(md, paper)

\* lines 443-449
RECURSIVE load_dump(_, _)
load_dump(md, file) ==
    IF file = <<>> THEN md ELSE load_dump(PutEntry(md, Head(file)), Tail(file))

EntryOf(md, d) == md[CHOOSE i \in 1..Len(md) : md[i].doi = d]

\* lines 463-466: the papers of the tasks, in the order of metadict.values()
IsTask(paper) == Truthy(paper.is_materials) /\ ~Truthy(paper.success)
Tasks(md) == SelectSeq(md, IsTask)

NewFuture(d) ==
    [doi |-> d, st |-> "PENDING", at |-> "queued", ret |-> "unset",
     yielded |-> FALSE, ncalls |-> 0, proxy |-> FALSE, proxies |-> 0]

\* a flush that writes only the records this run worked on
f_save_metadata_TasksOnly(md) == Tasks(md)

\* lines 473-477: the file rewritten in full, one line per value of metadict
f_save_metadata(md) == md

\* line 465 reads paper["is_materials"] and, when that is true, paper["success"]:
\* a record without the key raises KeyError
RaisesKeyError(paper) ==
    \/ "is_materials" \notin DOMAIN paper
    \/ Truthy(paper.is_materials) /\ "success" \notin DOMAIN paper

\* lines 443-483: load, build the tasks, submit them all
LoadAndSubmit ==
    /\ orch_pc = "start"
    /\ metadict' = load_dump(<<>>, dump_file)
    /\ IF \E i \in 1..Len(metadict') : RaisesKeyError(metadict'[i])
       THEN /\ futures' = <<>>
            /\ orch_pc' = "raised"
       ELSE /\ futures' = [i \in 1..Len(Tasks(metadict')) |->
                             NewFuture(Tasks(metadict')[i].doi)]
            /\ orch_pc' = "loop"
    /\ UNCHANGED <<callVars, sideVars, dump_file, input_file, disk, stop_event, ip_pool, detected, flushed>>

Futs == 1..Len(futures)
RunningFuts == {i \in Futs : futures[i].st = "RUNNING"}
Queued == {i \in Futs : futures[i].at = "queued"}

\* a worker thread takes the next work item: a cancelled one is only
\* notified (set_running_or_notify_cancel), any other starts running
WorkerTake ==
    /\ Queued # {}
    /\ Cardinality(RunningFuts) < max_workers
    /\ LET h == CHOOSE i \in Queued : \A j \in Queued : i <= j IN
       futures' = [futures EXCEPT ![h] =
                      IF @.st = "CANCELLED"
                      THEN [@ EXCEPT !.st = "CANCELLED_AND_NOTIFIED", !.at = "dropped"]
                      ELSE [@ EXCEPT !.st = "RUNNING", !.at = "l352"]]
    /\ UNCHANGED <<callVars, sideVars, dump_file, input_file, metadict, disk, stop_event, ip_pool,
                   orch_pc, detected, flushed>>

\* an assignment that also lands in the first entry of the store
SetEntry_AlsoFirst(md, d, paper) ==
    [i \in 1..Len(md) |-> IF md[i].doi = d \/ i = 1
                          THEN [paper EXCEPT !.doi = md[i].doi] ELSE md[i]]

\* paper[...] = ... in a task: the paper is the entry of metadict for its doi
SetEntry(md, d, paper) == [i \in 1..Len(md) |-> IF md[i].doi = d THEN paper ELSE md[i]]

\* a scan that looks for the .pdf only
DirsHolding_PdfOnly(files, filename) ==
    {dir \in Dirs : \E f \in files : f.dir = dir /\ f.name = filename /\ f.ext = "pdf"}

\* the subdirectories of Path(pdf_path).parent that hold the file name with
\* an artifact extension
DirsHolding(files, filename) ==
    {dir \in Dirs : \E f \in files : f.dir = dir /\ f.name = filename /\ f.ext \in Exts}

\* lines 370-381 for one subdirectory: the .pdf is looked for first
Adopted(files, dir, filename) ==
    IF File(dir, filename, "pdf") \in files
    THEN File(dir, filename, "pdf") ELSE File(dir, filename, "xml")

Finished(f, ret) == [f EXCEPT !.st = "FINISHED", !.at = "done", !.ret = ret]

\* lines 352-381: the guards, the reset of the result fields, the scan of
\* the sibling directories (iterdir gives them in any order)
TaskDedup(i) ==
    /\ futures[i].st = "RUNNING" /\ futures[i].at = "l352"
    /\ LET d == futures[i].doi
           paper == EntryOf(metadict, d)
           reset == [paper EXCEPT !.success = PyFalse, !.type = None,
                                  !.path = None, !.url = None]
           filename == Replace(d, "/", "_")
           holding == DirsHolding(disk, filename)
       IN  IF Truthy(paper.success) \/ paper.is_materials = PyFalse
           THEN /\ futures' = [futures EXCEPT ![i] = Finished(@, "None")]
                /\ UNCHANGED metadict
           ELSE IF d = None
           THEN /\ futures' = [futures EXCEPT ![i] = Finished(@, "None")]
                /\ metadict' = SetEntry(metadict, d, reset)
           ELSE IF holding # {}
           THEN \E dir \in holding :
                   LET f == Adopted(disk, dir, filename) IN
                   /\ metadict' = SetEntry(metadict, d,
                                     [reset EXCEPT !.success = PyTrue, !.type = <<f.ext>>,
                                                   !.path = PathOf(f)])
                   /\ futures' = [futures EXCEPT ![i] = Finished(@, "paper")]
           ELSE /\ metadict' = SetEntry(metadict, d, reset)
                /\ futures' = [futures EXCEPT ![i].at = "l384"]
    /\ UNCHANGED <<callVars, sideVars, dump_file, input_file, disk, stop_event, ip_pool, orch_pc,
                   detected, flushed>>

\* what save_pdf can do for an identifier: the record fields it sets, the
\* extensions it writes, the number of strategies it invokes
ChainResults ==
    [d \in OrchDois |->
        {LET r == save_pdf(NewPaper(d), pdf_file(OutDir, d), outs) IN
         [success |-> r.paper.success, type |-> r.paper.type, path |-> r.paper.path,
          url |-> r.paper.url, raised |-> r.raised,
          exts |-> {r.writes[k].ext : k \in 1..Len(r.writes)},
          ncalls |-> Len(r.invoked)] : outs \in ChainOutcomes(d)}]

\* a task that gives up when it has no proxy
TaskDownload_NeedsProxy(i) ==
    /\ futures[i].st = "RUNNING" /\ futures[i].at = "l384"
    /\ LET d == futures[i].doi
           paper == EntryOf(metadict, d)
           filename == Replace(d, "/", "_")
       IN  IF ip_pool # "proxy"
           THEN /\ futures' = [futures EXCEPT ![i] =
                                  [Finished(@, "paper") EXCEPT !.proxy = (ip_pool # "None")]]
                /\ UNCHANGED <<metadict, disk>>
           ELSE \E r \in ChainResults[d] :
                   /\ metadict' = SetEntry(metadict, d,
                                     [paper EXCEPT !.success = r.success, !.type = r.type,
                                                   !.path = r.path, !.url = r.url])
                   /\ disk' = disk \cup {File(OutDir, filename, e) : e \in r.exts}
                   /\ futures' = [futures EXCEPT ![i] =
                                     [Finished(@, "paper") EXCEPT !.ncalls = r.ncalls,
                                                                  !.proxy = TRUE,
                                                                  !.proxies = 1]]
    /\ UNCHANGED <<callVars, sideVars, dump_file, input_file, stop_event, ip_pool, orch_pc,
                   detected, flushed>>

\* lines 384-398: the proxy lookup when a pool is given, then save_pdf, with
\* the proxy if the pool gave one and without otherwise; an exception of
\* save_pdf is caught and the paper returned as it is
TaskDownload(i) ==
    /\ futures[i].st = "RUNNING" /\ futures[i].at = "l384"
    /\ LET d == futures[i].doi
           paper == EntryOf(metadict, d)
           filename == Replace(d, "/", "_")
       IN  \E r \in ChainResults[d] :
              /\ metadict' = SetEntry(metadict, d,
                                [paper EXCEPT !.success = r.success, !.type = r.type,
                                              !.path = r.path, !.url = r.url])
              /\ disk' = disk \cup {File(OutDir, filename, e) : e \in r.exts}
              /\ futures' = [futures EXCEPT ![i] =
                                [Finished(@, "paper") EXCEPT
                                    !.ncalls = r.ncalls,
                                    !.proxy = (ip_pool # "None"),
                                    !.proxies = IF ip_pool = "proxy" THEN 1 ELSE 0]]
    /\ UNCHANGED <<callVars, sideVars, dump_file, input_file, stop_event, ip_pool, orch_pc,
                   detected, flushed>>

\* len(os.listdir(pdf_path))
ListDirCount(files) == Cardinality({f \in files : f.dir = OutDir})

\* for f in future_to_paper: if not f.done(): f.cancel()
CancelAll(fs) ==
    [i \in 1..Len(fs) |-> IF fs[i].st = "PENDING" THEN [fs[i] EXCEPT !.st = "CANCELLED"]
                          ELSE fs[i]]

Detection ==
    IF detected.seen THEN detected
    ELSE [seen |-> TRUE, count |-> ListDirCount(disk), running |-> Cardinality(RunningFuts)]

\* a loop whose cancellation is not guarded by the quota and stop test
HandleCompleted_AlwaysCancels(i) ==
    /\ orch_pc = "loop"
    /\ ~futures[i].yielded
    /\ futures[i].st \in {"FINISHED", "CANCELLED_AND_NOTIFIED"}
    /\ LET yielded == [futures EXCEPT ![i].yielded = TRUE] IN
       IF futures[i].st = "CANCELLED_AND_NOTIFIED" \/ futures[i].ret = "None"
       THEN /\ futures' = yielded
            /\ UNCHANGED <<metadict, orch_pc, detected>>
       ELSE /\ metadict' = PutEntry(metadict, EntryOf(metadict, futures[i].doi))
            /\ IF ListDirCount(disk) > max_pdf_num
               THEN /\ futures' = CancelAll(yielded)
                    /\ detected' = Detection
                    /\ UNCHANGED orch_pc
               ELSE IF stop_event = "None"
               THEN /\ futures' = yielded       \* None.is_set(): AttributeError
                    /\ orch_pc' = "raised"
                    /\ UNCHANGED detected
               ELSE IF stop_event = "set"
               THEN /\ futures' = CancelAll(yielded)
                    /\ detected' = Detection
                    /\ UNCHANGED orch_pc
               ELSE /\ futures' = CancelAll(yielded)
                    /\ UNCHANGED <<orch_pc, detected>>
    /\ UNCHANGED <<callVars, sideVars, dump_file, input_file, disk, stop_event, ip_pool, flushed>>

\* lines 487-519: one iteration of the as_completed loop, for a future that
\* is finished or was notified as cancelled
HandleCompleted(i) ==
    /\ orch_pc = "loop"
    /\ ~futures[i].yielded
    /\ futures[i].st \in {"FINISHED", "CANCELLED_AND_NOTIFIED"}
    /\ LET yielded == [futures EXCEPT ![i].yielded = TRUE] IN
       IF futures[i].st = "CANCELLED_AND_NOTIFIED" \/ futures[i].ret = "None"
       THEN /\ futures' = yielded
            /\ UNCHANGED <<metadict, orch_pc, detected>>
       ELSE /\ metadict' = PutEntry(metadict, EntryOf(metadict, futures[i].doi))
            /\ IF ListDirCount(disk) > max_pdf_num
               THEN /\ futures' = CancelAll(yielded)
                    /\ detected' = Detection
                    /\ UNCHANGED orch_pc
               ELSE IF stop_event = "None"
               THEN /\ futures' = yielded       \* None.is_set(): AttributeError
                    /\ orch_pc' = "raised"
                    /\ UNCHANGED detected
               ELSE IF stop_event = "set"
               THEN /\ futures' = CancelAll(yielded)
                    /\ detected' = Detection
                    /\ UNCHANGED orch_pc
               ELSE /\ futures' = yielded
                    /\ UNCHANGED <<orch_pc, detected>>
    /\ UNCHANGED <<callVars, sideVars, dump_file, input_file, disk, stop_event, ip_pool, flushed>>

\* a flush taken as soon as the quota or the stop event was detected, without
\* waiting for the tasks still running
FlushAtEnd_NoWait ==
    /\ orch_pc = "loop"
    /\ (\A i \in Futs : futures[i].yielded) \/ detected.seen
    /\ dump_file' = f_save_metadata(metadict)
    /\ flushed' = TRUE
    /\ orch_pc' = "l523"
    /\ UNCHANGED <<callVars, sideVars, input_file, metadict, futures, disk, stop_event, ip_pool, detected>>

\* a final step that looks at the stop event before the flush
FlushAtEnd_ExitFirst ==
    /\ orch_pc = "loop"
    /\ \A i \in Futs : futures[i].yielded
    /\ IF stop_event = "set"
       THEN orch_pc' = "exited" /\ UNCHANGED <<dump_file, flushed>>
       ELSE /\ dump_file' = f_save_metadata(metadict)
            /\ flushed' = TRUE
            /\ orch_pc' = "l523"
    /\ UNCHANGED <<callVars, sideVars, input_file, metadict, futures, disk, stop_event, ip_pool, detected>>

\* line 522, reached when as_completed has yielded every future
FlushAtEnd ==
    /\ orch_pc = "loop"
    /\ \A i \in Futs : futures[i].yielded
    /\ dump_file' = f_save_metadata(metadict)
    /\ flushed' = TRUE
    /\ orch_pc' = "l523"
    /\ UNCHANGED <<callVars, sideVars, input_file, metadict, futures, disk, stop_event, ip_pool, detected>>

\* a final check that returns whatever the stop event says
FinalCheck_NoExit ==
    /\ orch_pc = "l523"
    /\ orch_pc' = IF stop_event = "None" THEN "raised" ELSE "returned"
    /\ UNCHANGED <<callVars, sideVars, dump_file, input_file, metadict, futures, disk, stop_event,
                   ip_pool, detected, flushed>>

\* lines 523-524: if stop_event.is_set(): exit()
FinalCheck ==
    /\ orch_pc = "l523"
    /\ orch_pc' = IF stop_event = "None" THEN "raised"
                  ELSE IF stop_event = "set" THEN "exited" ELSE "returned"
    /\ UNCHANGED <<callVars, sideVars, dump_file, input_file, metadict, futures, disk, stop_event,
                   ip_pool, detected, flushed>>

\* the operator sets the stop event while the function runs
SetStop ==
    /\ orch_pc \in {"start", "loop", "l523"}
    /\ stop_event = "clear"
    /\ stop_event' = "set"
    /\ UNCHANGED <<callVars, sideVars, dump_file, input_file, metadict, futures, disk, ip_pool,
                   orch_pc, detected, flushed>>

WorkerStep == WorkerTake \/ \E i \in Futs : TaskDedup(i) \/ TaskDownload(i)
OrchStep == LoadAndSubmit \/ (\E i \in Futs : HandleCompleted(i)) \/ FlushAtEnd \/ FinalCheck

Next == WorkerStep \/ OrchStep \/ SetStop

Spec == Init /\ [][Next]_vars

\* the threads of the pool and the orchestrator's thread keep running
FairSpec == Spec /\ WF_vars(WorkerStep \/ OrchStep)

(***************************************************************************)
(* Which records become tasks.  The dump files here hold the kinds of      *)
(* record the pipeline and the record format allow: never attempted        *)
(* (success None, filter.py:244-252), failed earlier, already successful,  *)
(* classified negative, not yet classified (is_materials None), and        *)
(* without the annotation key.                                             *)
(***************************************************************************)
MaxEligibilityLines == 2

FreshLine(d) == [NewPaper(d) EXCEPT !.success = None]
UnknownLine(d) == [NewPaper(d) EXCEPT !.is_materials = None, !.success = None]
UnannotatedLine(d) ==
    [doi |-> d, success |-> PyFalse, type |-> None, path |-> None, url |-> None]

EligibilityLines ==
    {PendingLine(DoiPlain), PendingLine(DoiOther), FreshLine(DoiPlain), DoneLine(DoiPlain),
     SkippedLine(DoiOther), UnknownLine(DoiOther), UnannotatedLine(DoiPlain)}

InitEligibility ==
    /\ call = NoCall
    /\ dest = NoFiles
    /\ ELIFE_XML_INDEX = NoIndex
    /\ saved = NoSaved
    /\ dump_file \in UNION {[1..n -> EligibilityLines] : n \in 0..MaxEligibilityLines}
    /\ input_file = dump_file
    /\ metadict = <<>>
    /\ futures = <<>>
    /\ disk = {}
    /\ stop_event = "clear"
    /\ ip_pool \in {"None", "empty", "proxy"}
    /\ orch_pc = "start"
    /\ detected = NotDetected
    /\ flushed = FALSE
    /\ prior = NoPrior
    /\ month_call = NoMonth
    /\ s3 = NoS3
    /\ saved_old = NoSavedOld
    /\ out_dir = "present"
    /\ index_calls = NoIndexCalls
    /\ driver = NoDriver

SpecEligibility == InitEligibility /\ [][Next]_vars

(***************************************************************************)
(* Two runs of save_pdf_from_dump_new, the second over the file the first  *)
(* flushed.                                                                *)
(***************************************************************************)
MaxRerunLines == 2

RerunLines ==
    {FreshLine(DoiPlain), FreshLine(DoiOther), PendingLine(DoiOther), DoneLine(DoiPlain),
     SkippedLine(DoiOther)}

\* nothing there; an artifact of DoiPlain next door; an output directory that
\* already holds more than the quota
RerunDisks ==
    { {},
      {File(SiblingDir, Replace(DoiPlain, "/", "_"), "xml")},
      {File(OutDir, <<"older", "a">>, "pdf"), File(OutDir, <<"older", "b">>, "pdf")} }

InitRerun ==
    /\ call = NoCall
    /\ dest = NoFiles
    /\ ELIFE_XML_INDEX = NoIndex
    /\ saved = NoSaved
    /\ dump_file \in UNION {[1..n -> RerunLines] : n \in 1..MaxRerunLines}
    /\ input_file = dump_file
    /\ metadict = <<>>
    /\ futures = <<>>
    /\ disk \in RerunDisks
    /\ stop_event = "clear"
    /\ ip_pool = "None"
    /\ orch_pc = "start"
    /\ detected = NotDetected
    /\ flushed = FALSE
    /\ prior = NoPrior
    /\ month_call = NoMonth
    /\ s3 = NoS3
    /\ saved_old = NoSavedOld
    /\ out_dir = "present"
    /\ index_calls = NoIndexCalls
    /\ driver = NoDriver

\* some strategy succeeded for a task of the current run
StrategySucceeded ==
    \E i \in Futs : futures[i].ncalls > 0 /\ Truthy(EntryOf(metadict, futures[i].doi).success)

\* the function is called again, with a fresh stop event, on the file it left
RunAgain ==
    /\ orch_pc \in {"returned", "exited"}
    /\ prior.run = 1
    /\ prior' = [run |-> 2, store |-> dump_file, succeeded |-> StrategySucceeded,
                 cut |-> detected.seen]
    /\ input_file' = dump_file
    /\ metadict' = <<>>
    /\ futures' = <<>>
    /\ stop_event' = "clear"
    /\ orch_pc' = "start"
    /\ detected' = NotDetected
    /\ flushed' = FALSE
    /\ UNCHANGED <<callVars, dump_file, disk, ip_pool, month_call, s3, saved_old, out_dir, index_calls, driver>>

RerunNext == Next \/ RunAgain

SpecRerun == InitRerun /\ [][RerunNext]_vars

(***************************************************************************)
(* The flush of f_save_metadata step by step: open(dump_path, "w")         *)
(* truncates the file, each f.write adds one line, the with block closes   *)
(* it.  The process can be stopped between any two steps.                  *)
(***************************************************************************)
\* line 475
FlushOpen ==
    /\ orch_pc = "loop"
    /\ \A i \in Futs : futures[i].yielded
    /\ dump_file' = <<>>
    /\ orch_pc' = "l476"
    /\ UNCHANGED <<callVars, sideVars, input_file, metadict, futures, disk, stop_event,
                   ip_pool, detected, flushed>>

\* lines 476-477, one iteration
FlushWrite ==
    /\ orch_pc = "l476"
    /\ Len(dump_file) < Len(f_save_metadata(metadict))
    /\ dump_file' = Append(dump_file, f_save_metadata(metadict)[Len(dump_file) + 1])
    /\ UNCHANGED <<callVars, sideVars, input_file, metadict, futures, disk, stop_event,
                   ip_pool, orch_pc, detected, flushed>>

\* the end of the with block of line 475
FlushClose ==
    /\ orch_pc = "l476"
    /\ Len(dump_file) = Len(f_save_metadata(metadict))
    /\ flushed' = TRUE
    /\ orch_pc' = "l523"
    /\ UNCHANGED <<callVars, sideVars, dump_file, input_file, metadict, futures, disk,
                   stop_event, ip_pool, detected>>

StepwiseNext ==
    \/ WorkerStep
    \/ LoadAndSubmit
    \/ \E i \in Futs : HandleCompleted(i)
    \/ FlushOpen
    \/ FlushWrite
    \/ FlushClose
    \/ FinalCheck
    \/ SetStop

SpecStepwiseFlush == InitRerun /\ [][StepwiseNext]_vars

(***************************************************************************)
(* fallbacks.py, month_folder: the deposit date the bioRxiv API gives for  *)
(* the identifier, rolled over by one day when it is the last day of its   *)
(* month, formatted as "%B_%Y".                                            *)
(***************************************************************************)
\* a leap-year rule without the century exception
IsLeap_Every4(year) == year % 4 = 0

\* calendar.isleap
IsLeap(year) == year % 4 = 0 /\ (year % 100 # 0 \/ year % 400 = 0)

\* calendar.monthrange(year, month)[1]
monthrange(year, month) ==
    IF month = 2 THEN (IF IsLeap(year) THEN 29 ELSE 28)
    ELSE IF month \in {4, 6, 9, 11} THEN 30
    ELSE 31

Date(year, month, day) == [year |-> year, month |-> month, day |-> day]

\* date + datetime.timedelta(days=1)
NextDay(date) ==
    IF date.day < monthrange(date.year, date.month)
    THEN Date(date.year, date.month, date.day + 1)
    ELSE IF date.month < 12 THEN Date(date.year, date.month + 1, 1)
    ELSE Date(date.year + 1, 1, 1)

MonthNames ==
    <<"January", "February", "March", "April", "May", "June", "July", "August",
      "September", "October", "November", "December">>

\* date.strftime("%B_%Y")
strftime_B_Y(date) == <<MonthNames[date.month], "_", date.year>>

\* lines 340-344
month_folder(date) ==
    LET last_day == monthrange(date.year, date.month) IN
    strftime_B_Y(IF date.day = last_day THEN NextDay(date) ELSE date)

\* the dates of an ordinary year, a leap year, a century year that is not a
\* leap year and one that is
Years == {2019, 2020, 2100, 2000}
Dates ==
    {d \in [year : Years, month : 1..12, day : 1..31] : d.day <= monthrange(d.year, d.month)}

\* lines 334-344; the request of lines 335-337 fails or gives a date
MonthFolderCall ==
    /\ ~month_call.called
    /\ \/ \E date \in Dates :
             month_call' = [called |-> TRUE, raised |-> FALSE, date |-> date,
                            result |-> month_folder(date)]
       \/ month_call' = [called |-> TRUE, raised |-> TRUE]
    /\ UNCHANGED <<callVars, orchVars, prior, s3, saved_old, out_dir, index_calls, driver>>

MonthFolderReturns ==
    /\ month_call.called
    /\ month_call' = NoMonth
    /\ UNCHANGED <<callVars, orchVars, prior, s3, saved_old, out_dir, index_calls, driver>>

MonthNext == MonthFolderCall \/ MonthFolderReturns

SpecMonth == InitIdle /\ [][MonthNext]_vars

(***************************************************************************)
(* The archive locator: fallback_s3 and its probes find_meca_for_doi.      *)
(* s3 is the state of one call: the candidate keys listed for the month,   *)
(* one future per key, the position of the as_completed loop, the target   *)
(* and the number of full-container get_object requests.                   *)
(***************************************************************************)
MaxCandidates == 3

\* stands for ThreadPoolExecutor(max_workers=32): probes running at once
MaxProbeWorkers == 2

\* str.lower() / bytes.lower() on the token alphabet of the model
lower(s) ==
    [i \in 1..Len(s) |-> IF s[i] = "X" THEN "x"
                         ELSE IF s[i] = "eLife" THEN "elife" ELSE s[i]]

S3Dois == {<<"10", ".", "1101", "/", "2020", ".", "798496">>,
           <<"10", ".", "1101", "/", "X">>}

\* manifest.xml of a candidate container; None: the two windows hold no
\* readable manifest.xml, so ZipFile / z.read raises
Manifests == {<<"doi", "798496">>, <<"doi", "X">>, None}

\* token = doi.split("/")[-1].lower()
s3_token(doi) == LET parts == Split(doi, <<"/">>) IN lower(parts[Len(parts)])

\* doi_token.split('.')[-1].encode("utf-8") in manifest.lower()
manifest_matches(manifest, doi_token) ==
    LET parts == Split(doi_token, <<".">>) IN
    Contains(lower(manifest), parts[Len(parts)])

\* find_meca_for_doi: "False" when a ranged read raised, raises when the
\* manifest cannot be read, else the membership test
find_meca_for_doi(manifest, doi_token, fault) ==
    IF fault THEN "False"
    ELSE IF manifest = None THEN "raised"
    ELSE IF manifest_matches(manifest, doi_token) THEN "True"
    ELSE "False"

NewProbe == [st |-> "PENDING", res |-> "none", fault |-> FALSE, yielded |-> FALSE]

ProbeIdx == IF s3.pc = "idle" THEN {} ELSE 1..Len(s3.keys)

\* entry of fallback_s3 after the listing: no key -> return False, else one
\* future per key
S3Call ==
    /\ s3.pc = "idle"
    /\ \E doi \in S3Dois, n \in 0..MaxCandidates :
        \E keys \in [1..n -> Manifests] :
            s3' = [pc |-> IF n = 0 THEN "returned" ELSE "scan",
                   doi |-> doi,
                   keys |-> keys,
                   probes |-> [i \in 1..n |-> NewProbe],
                   target |-> 0,
                   fetches |-> 0,
                   result |-> IF n = 0 THEN "False" ELSE "none"]
    /\ UNCHANGED <<callVars, orchVars, prior, month_call, saved_old, out_dir, index_calls, driver>>

\* a worker thread takes the oldest queued probe
S3ProbeStart(i) ==
    /\ i \in ProbeIdx
    /\ s3.probes[i].st = "PENDING"
    /\ \A j \in 1..(i - 1) : s3.probes[j].st # "PENDING"
    /\ Cardinality({j \in ProbeIdx : s3.probes[j].st = "RUNNING"}) < MaxProbeWorkers
    /\ s3' = [s3 EXCEPT !.probes[i].st = "RUNNING"]
    /\ UNCHANGED <<callVars, orchVars, prior, month_call, saved_old, out_dir, index_calls, driver>>

\* the probe returns or raises; it may outlive the loop and the call
S3ProbeFinish(i) ==
    /\ i \in ProbeIdx
    /\ s3.probes[i].st = "RUNNING"
    /\ \E fault \in BOOLEAN :
        s3' = [s3 EXCEPT !.probes[i].st = "DONE",
                         !.probes[i].fault = fault,
                         !.probes[i].res =
                             find_meca_for_doi(s3.keys[i], s3_token(s3.doi), fault)]
    /\ UNCHANGED <<callVars, orchVars, prior, month_call, saved_old, out_dir, index_calls, driver>>

\* a loop that breaks without cancelling anything
cancel_all_Nothing(probes) == probes

\* fut.cancel() for every future: only a queued one is cancelled
cancel_all(probes) ==
    [j \in 1..Len(probes) |->
        IF probes[j].st = "PENDING" THEN [probes[j] EXCEPT !.st = "CANCELLED"]
        ELSE probes[j]]

\* a loop body that takes whatever future completed first as the target
S3Scan_AnyResult(i) ==
    /\ s3.pc = "scan"
    /\ i \in ProbeIdx
    /\ s3.probes[i].st = "DONE" /\ ~s3.probes[i].yielded
    /\ s3' = [s3 EXCEPT !.target = i,
                        !.probes = cancel_all([s3.probes EXCEPT ![i].yielded = TRUE]),
                        !.pc = "fetch"]
    /\ UNCHANGED <<callVars, orchVars, prior, month_call, saved_old, out_dir, index_calls, driver>>

\* one iteration of `for future in as_completed(futures)`
S3Scan(i) ==
    /\ s3.pc = "scan"
    /\ i \in ProbeIdx
    /\ s3.probes[i].st = "DONE" /\ ~s3.probes[i].yielded
    /\ IF s3.probes[i].res = "True"
       THEN s3' = [s3 EXCEPT !.target = i,
                             !.probes = cancel_all([s3.probes EXCEPT ![i].yielded = TRUE]),
                             !.pc = "fetch"]
       ELSE s3' = [s3 EXCEPT !.probes[i].yielded = TRUE]
    /\ UNCHANGED <<callVars, orchVars, prior, month_call, saved_old, out_dir, index_calls, driver>>

\* the loop ran out of futures: target is None -> return False
S3ScanEnd ==
    /\ s3.pc = "scan"
    /\ \A j \in ProbeIdx : s3.probes[j].yielded
    /\ s3' = [s3 EXCEPT !.pc = "returned", !.result = "False"]
    /\ UNCHANGED <<callVars, orchVars, prior, month_call, saved_old, out_dir, index_calls, driver>>

\* the full get_object of the target and the extraction of its first .pdf
S3Fetch ==
    /\ s3.pc = "fetch"
    /\ \E archive \in {"pdf", "no pdf", "error"} :
        s3' = [s3 EXCEPT !.pc = "returned",
                         !.fetches = @ + 1,
                         !.result = CASE archive = "pdf" -> "True"
                                      [] archive = "no pdf" -> "False"
                                      [] OTHER -> "raised"]
    /\ UNCHANGED <<callVars, orchVars, prior, month_call, saved_old, out_dir, index_calls, driver>>

\* the caller takes the result
S3Returns ==
    /\ s3.pc = "returned"
    /\ s3' = NoS3
    /\ UNCHANGED <<callVars, orchVars, prior, month_call, saved_old, out_dir, index_calls, driver>>

S3Next ==
    \/ S3Call
    \/ \E i \in 1..MaxCandidates : S3ProbeStart(i)
    \/ \E i \in 1..MaxCandidates : S3ProbeFinish(i)
    \/ \E i \in 1..MaxCandidates : S3Scan(i)
    \/ S3ScanEnd
    \/ S3Fetch
    \/ S3Returns

SpecS3 == InitIdle /\ [][S3Next]_vars

(***************************************************************************)
(* save_pdf on a disk that may refuse part of a write.  The strategies     *)
(* write with open(path, "wb+") followed by f.write(content), inside their *)
(* try block: open has created (or emptied) the file when f.write raises,  *)
(* and the except clause turns the OSError into the return (False, None).  *)
(***************************************************************************)
\* fallback_bioc_pmc when the disk takes only the first `written` tokens of
\* the body (lines 163-179)
bioc_pmc_on_disk(doi, net, written) ==
    LET out == fallback_bioc_pmc(doi, net) IN
    IF out.ok /\ written < Len(out.writes[1].body)
    THEN Outcome(FALSE, None, FALSE,
                 <<[ext |-> "xml", body |-> SubSeq(out.writes[1].body, 1, written)]>>,
                 out.nreq, 0)
    ELSE out

\* a call of save_pdf with well-formed arguments on such a disk
SavePdfOnDisk ==
    /\ ~saved.called
    /\ \E d \in ChainDois, written \in 0..1 :
        \E outs \in [arxiv : ArxivOutcomes[d], doi : DoiOutcomes[d],
                     sci_hub : SciHubOutcomes[d],
                     bioc_pmc : {bioc_pmc_on_disk(d, net, written) : net \in BiocNets}] :
            LET r == save_pdf(NewPaper(d), pdf_file(OutDir, d), outs) IN
            /\ saved' = [paper |-> r.paper, invoked |-> r.invoked,
                         writes |-> r.writes, raised |-> r.raised,
                         before |-> dest, called |-> TRUE, given |-> NewPaper(d),
                         request |-> None, filepath |-> pdf_file(OutDir, d),
                         error |-> "none"]
            /\ dest' = ApplyWrites(dest, r.writes)
    /\ UNCHANGED <<call, ELIFE_XML_INDEX, orchVars, sideVars>>

SpecDisk == InitIdle /\ [][SavePdfOnDisk \/ SavePdfReturns]_vars

(***************************************************************************)
(* pdf.py, save_pdf_old: the chain that also holds the credentialed        *)
(* strategies (archive store, Wiley TDM API, Elsevier XML API), and        *)
(* fallbacks.py, fallback_elsevier_api.  api_keys maps each slot to its    *)
(* value, to None, or to Absent when the dict has no such key.             *)
(***************************************************************************)
MaxElsevierRequests == 2

Absent == <<"absent">>
Valued == <<"value">>
Slots == {"WILEY_TDM_API_TOKEN", "ELSEVIER_TDM_API_KEY", "AWS_ACCESS_KEY_ID",
          "AWS_SECRET_ACCESS_KEY"}

\* {} ; the dict of test_download_pdf.py:16-21 ; every slot filled ; the
\* Elsevier key alone, filled and None
ApiKeyMaps ==
    {[s \in Slots |-> Absent], [s \in Slots |-> None], [s \in Slots |-> Valued],
     [s \in Slots |-> IF s = "ELSEVIER_TDM_API_KEY" THEN Valued ELSE Absent],
     [s \in Slots |-> IF s = "ELSEVIER_TDM_API_KEY" THEN None ELSE Absent]}

\* a response with status 401
Unauthorized == [st |-> "401", body |-> <<>>, page |-> "na"]

ElsevierResponses ==
    {Exc, Unauthorized, Ok(BodyXml, "well-formed"), Ok(BodyHtml, "malformed")}

\* net[1]: the answer of the article endpoint.  401 -> False; any other
\* non-2xx -> raise_for_status, caught -> False; XMLSyntaxError -> False
fallback_elsevier_api(doi, net) ==
    IF net[1].st = "401" THEN Declined(1)
    ELSE IF net[1].st = "exc" THEN Declined(1)
    ELSE IF net[1].page # "well-formed" THEN Declined(1)
    ELSE Wrote("xml", net[1].body, None, 1)

\* the request of https://doi.org/{doi}: a failure carries str(e) in body
LandingFailures ==
    {[st |-> "exc", body |-> <<"403 Client Error for url: https://www.", host, ".org/">>,
      page |-> "na"] : host \in {"biorxiv", "eLife", "wiley", "example"}}

OldNets ==
    {<<a, b>> : a \in LandingFailures \cup {Ok(BodyHtml, "meta_url"), Ok(BodyHtml, "no_meta")},
                b \in {Exc, Ok(BodyPdf, "na"), Ok(BodyHtml, "na")}}

OldDois == {DoiPlain, DoiElife, DoiArxivNew}

\* what each strategy save_pdf_old may invoke can return for the identifier;
\* e is the answer of the Elsevier API
OldOutcomes(d, e) ==
    [s3 : {"True", "False", "raised"},
     arxiv : ArxivOutcomes[d],
     sci_hub : {Declined(1), Wrote("pdf", BodyPdf, <<"https:", "frame src of ">> \o d, 2)},
     bioc_pmc : {Declined(1), Wrote("xml", BodyXml, <<"BioC_xml">>, 2)},
     elife : {Declined(1), Raised(1), Wrote("xml", BodyXml, <<"elife-article-xml">>, 2)},
     wiley : {Declined(max_attempts), Wrote("pdf", BodyPdf, None, 1)},
     elsevier : {fallback_elsevier_api(d, <<e>>)}]

\* lines 103-294.  net[1]: the landing page; net[2]: the citation_pdf_url
save_pdf_old(paper_metadata, filepath, api_keys, net, outs) ==
    LET doi == paper_metadata.doi
        reset == [paper_metadata EXCEPT !.success = PyFalse, !.type = None,
                                        !.path = None, !.url = None]
        start == [success |-> FALSE, url |-> <<"https://doi.org/">> \o doi,
                  outputtype |-> Pdf, invoked |-> <<>>, writes |-> <<>>, raised |-> FALSE]
        Has(slot) == api_keys[slot] # Absent                \* slot in api_keys
        Get(slot) == IF Has(slot) THEN api_keys[slot] ELSE None   \* api_keys.get(slot)
        NonEmpty == \E slot \in Slots : Has(slot)           \* bool(api_keys)
        \* success, temp_url = FALLBACKS[fn](...); if success: url, outputtype = ...
        Call(st, fn, out, kind) ==
            IF out.raised
            THEN [st EXCEPT !.invoked = Append(@, [fn |-> fn, ok |-> FALSE]), !.raised = TRUE]
            ELSE [success    |-> out.ok,
                  url        |-> IF out.ok THEN out.url ELSE st.url,
                  outputtype |-> IF out.ok THEN kind ELSE st.outputtype,
                  invoked    |-> Append(st.invoked, [fn |-> fn, ok |-> out.ok]),
                  writes     |-> st.writes \o out.writes,
                  raised     |-> FALSE]
        \* FALLBACKS[fn](paper_metadata, output_path, api_keys): the result is dropped
        Dropped(st, fn, out) ==
            [st EXCEPT !.invoked = Append(@, [fn |-> fn, ok |-> out.ok]),
                       !.writes = @ \o out.writes]
        \* success = FALLBACKS["s3"](doi, output_path, api_keys)
        CallS3(st, res) ==
            [st EXCEPT !.success = (res = "True"),
                       !.invoked = Append(@, [fn |-> "s3", ok |-> (res = "True")]),
                       !.writes = IF res = "True"
                                  THEN @ \o <<[ext |-> "pdf", body |-> BodyPdf]>> ELSE @,
                       !.raised = (res = "raised")]
        Caught(st) == [st EXCEPT !.raised = FALSE]          \* inside try ... except Exception
        \* success, type, path, url assigned, then return paper_metadata
        Assigned(st) ==
            [paper |-> [reset EXCEPT !.success = Py(st.success), !.type = st.outputtype,
                                     !.path = with_suffix(filepath, st.outputtype[1]),
                                     !.url = st.url],
             invoked |-> st.invoked, writes |-> st.writes, raised |-> FALSE]
        \* return paper_metadata as it is (or the exception leaves it so)
        AsIs(st) ==
            [paper |-> reset, invoked |-> st.invoked, writes |-> st.writes,
             raised |-> st.raised]
    IN
    IF net[1].st = "exc"
    THEN \* lines 144-220
         LET error == net[1].body
             a1 == IF Contains(error, <<"biorxiv">>)
                      /\ Get("AWS_ACCESS_KEY_ID") # None
                      /\ Get("AWS_SECRET_ACCESS_KEY") # None
                   THEN CallS3(start, outs.s3) ELSE start
             a2 == IF Contains(doi, <<"arxiv">>)
                   THEN Call(a1, "arxiv", outs.arxiv, Pdf) ELSE a1
             a3 == Call(a2, "sci_hub", outs.sci_hub, Pdf)
             a4 == Call(a3, "bioc_pmc", outs.bioc_pmc, Xml)
             a5 == Call(a4, "elife", outs.elife, Xml)
         IN  IF a1.raised \/ a1.success THEN AsIs(a1)       \* lines 164-166
             ELSE IF a2.raised THEN AsIs(a2)
             ELSE IF a2.success THEN Assigned(a2)
             ELSE IF a3.success THEN Assigned(a3)
             ELSE IF a4.success THEN Assigned(a4)
             ELSE IF Contains(lower(error), <<"elife">>)
                  THEN IF a5.success THEN Assigned(a5) ELSE AsIs(a5)
             ELSE IF Contains(lower(error), <<"wiley">>) /\ NonEmpty
                        /\ Has("WILEY_TDM_API_TOKEN")
                  THEN AsIs(Dropped(a4, "wiley", outs.wiley))
             ELSE AsIs(a4)
    ELSE IF net[1].page = "meta_url"
    THEN \* lines 222-263
         IF net[2].st = "exc" THEN Assigned(start)
         ELSE IF IsPDF(net[2].body)
         THEN Assigned([start EXCEPT !.success = TRUE,
                                     !.url = <<"citation_pdf_url of ">> \o doi,
                                     !.writes = <<[ext |-> "pdf", body |-> net[2].body]>>])
         ELSE LET b1 == Call(start, "sci_hub", outs.sci_hub, Pdf)
                  b2 == IF b1.success THEN b1 ELSE Call(b1, "bioc_pmc", outs.bioc_pmc, Xml)
                  b3 == IF b2.success THEN b2
                        ELSE IF Contains(lower(doi), <<"elife">>)
                             THEN Call(b2, "elife", outs.elife, Xml)
                        ELSE IF NonEmpty /\ Has("WILEY_TDM_API_TOKEN")
                             THEN Dropped(b2, "wiley", outs.wiley)
                        ELSE IF NonEmpty /\ Has("ELSEVIER_TDM_API_KEY")
                             THEN Dropped(b2, "elsevier", outs.elsevier)
                        ELSE b2
              IN  Assigned(Caught(b3))
    ELSE \* lines 264-294
         LET c1 == Call(start, "sci_hub", outs.sci_hub, Pdf)
             c2 == IF c1.success THEN c1
                   ELSE IF Contains(lower(doi), <<"elife">>)
                        THEN Call(c1, "elife", outs.elife, Xml)
                   ELSE IF NonEmpty /\ Has("ELSEVIER_TDM_API_KEY")
                        THEN Dropped(c1, "elsevier", outs.elsevier)
                   ELSE c1
         IN  IF c2.raised THEN AsIs(c2) ELSE Assigned(c2)

\* a call of save_pdf_old; the Elsevier answers of the run are kept in order
SavePdfOld ==
    /\ ~saved_old.called
    /\ Len(saved_old.elsevier) < MaxElsevierRequests
    /\ \E d \in OldDois, api_keys \in ApiKeyMaps, net \in OldNets, e \in ElsevierResponses :
        \E outs \in OldOutcomes(d, e) :
            LET r == save_pdf_old(NewPaper(d), pdf_file(OutDir, d), api_keys, net, outs)
                asked == \E k \in 1..Len(r.invoked) : r.invoked[k].fn = "elsevier"
            IN  saved_old' = [called |-> TRUE, paper |-> r.paper, invoked |-> r.invoked,
                             writes |-> r.writes, raised |-> r.raised,
                             api_keys |-> api_keys,
                             elsevier |-> IF asked THEN Append(saved_old.elsevier, e.st)
                                          ELSE saved_old.elsevier]
    /\ UNCHANGED <<callVars, orchVars, prior, month_call, s3, out_dir, index_calls, driver>>

\* the caller takes the record; the log of the Elsevier answers stays
SavePdfOldReturns ==
    /\ saved_old.called
    /\ saved_old' = [NoSavedOld EXCEPT !.elsevier = saved_old.elsevier]
    /\ UNCHANGED <<callVars, orchVars, prior, month_call, s3, out_dir, index_calls, driver>>

SpecOld == InitIdle /\ [][SavePdfOld \/ SavePdfOldReturns]_vars

(***************************************************************************)
(* save_pdf_from_dump_new called with a pdf_path that does not exist or    *)
(* cannot be written.  Nothing in lines 429-483 looks at pdf_path: it is   *)
(* first used by the tasks (lines 362-364, save_pdf) and by the            *)
(* os.listdir of line 514.                                                 *)
(***************************************************************************)
\* open(..., "wb+") raises PermissionError inside the strategy's try block:
\* no file is written and the strategy returns (False, None)
in_unwritable_dir(out) == IF out.writes # <<>> THEN Declined(out.nreq) ELSE out

\* what save_pdf does for an identifier when the directory cannot be written
UnwritableResults ==
    [d \in OrchDois |->
        {LET r == save_pdf(NewPaper(d), pdf_file(OutDir, d),
                           [arxiv    |-> in_unwritable_dir(outs.arxiv),
                            doi      |-> in_unwritable_dir(outs.doi),
                            sci_hub  |-> in_unwritable_dir(outs.sci_hub),
                            bioc_pmc |-> in_unwritable_dir(outs.bioc_pmc)]) IN
         [success |-> r.paper.success, type |-> r.paper.type, path |-> r.paper.path,
          url |-> r.paper.url, ncalls |-> Len(r.invoked)] : outs \in ChainOutcomes(d)}]

InitOutDir ==
    /\ call = NoCall
    /\ dest = NoFiles
    /\ ELIFE_XML_INDEX = NoIndex
    /\ saved = NoSaved
    /\ dump_file \in DumpFiles
    /\ input_file = dump_file
    /\ metadict = <<>>
    /\ futures = <<>>
    /\ disk \in {files \in InitialDisks : ListDirCount(files) = 0}
    /\ stop_event = "clear"
    /\ ip_pool = "None"
    /\ orch_pc = "start"
    /\ detected = NotDetected
    /\ flushed = FALSE
    /\ prior = NoPrior
    /\ month_call = NoMonth
    /\ s3 = NoS3
    /\ saved_old = NoSavedOld
    /\ out_dir \in {"missing", "unwritable"}
    /\ index_calls = NoIndexCalls
    /\ driver = NoDriver

\* lines 384-398 in such a directory: save_pdf raises ValueError at lines
\* 59-60 when the directory is missing, which line 397 catches, and runs
\* its strategies to no avail when it cannot be written
TaskDownloadInDir(i) ==
    /\ futures[i].st = "RUNNING" /\ futures[i].at = "l384"
    /\ LET d == futures[i].doi
           paper == EntryOf(metadict, d)
       IN  IF out_dir = "missing"
           THEN /\ futures' = [futures EXCEPT ![i] = Finished(@, "paper")]
                /\ UNCHANGED metadict
           ELSE \E r \in UnwritableResults[d] :
                   /\ metadict' = SetEntry(metadict, d,
                                     [paper EXCEPT !.success = r.success, !.type = r.type,
                                                   !.path = r.path, !.url = r.url])
                   /\ futures' = [futures EXCEPT ![i] =
                                     [Finished(@, "paper") EXCEPT !.ncalls = r.ncalls]]
    /\ UNCHANGED <<callVars, sideVars, dump_file, input_file, disk, stop_event, ip_pool,
                   orch_pc, detected, flushed>>

\* lines 487-519 in such a directory: os.listdir(pdf_path) of line 514
\* raises FileNotFoundError when the directory is missing
HandleCompletedInDir(i) ==
    IF out_dir = "missing" /\ futures[i].st = "FINISHED" /\ futures[i].ret = "paper"
    THEN /\ orch_pc = "loop"
         /\ ~futures[i].yielded
         /\ metadict' = PutEntry(metadict, EntryOf(metadict, futures[i].doi))
         /\ futures' = [futures EXCEPT ![i].yielded = TRUE]
         /\ orch_pc' = "raised"
         /\ UNCHANGED <<callVars, sideVars, dump_file, input_file, disk, stop_event, ip_pool,
                        detected, flushed>>
    ELSE HandleCompleted(i)

OutDirNext ==
    \/ LoadAndSubmit
    \/ WorkerTake
    \/ \E i \in Futs : TaskDedup(i)
    \/ \E i \in Futs : TaskDownloadInDir(i)
    \/ \E i \in Futs : HandleCompletedInDir(i)
    \/ FlushAtEnd
    \/ FinalCheck

SpecOutDir == InitOutDir /\ [][OutDirNext]_vars

(***************************************************************************)
(* step3.py, update_metadata: the records of the .jsonl files are marked   *)
(* from the artifact files found under pdf_dir.                            *)
(***************************************************************************)
\* the artifacts a download run can leave in the output directory
ArtifactDisks ==
    SUBSET {File(OutDir, Replace(d, "/", "_"), e) : d \in OrchDois, e \in Exts}

UpdateFiles == UNION {[1..n -> {NewPaper(d) : d \in OrchDois}] : n \in 0..MaxLines}

\* lines 15-21: doi = path.stem.replace("_", "/"); the .xml files are
\* entered first, the .pdf files after them
doi_path_dict(files) ==
    {[doi |-> Replace(f.name, "_", "/"), path |-> PathOf(f)] :
        f \in {g \in files : g.ext = "pdf" \/ File(g.dir, g.name, "pdf") \notin files}}

\* lines 26-34 for the lines of one file
update_metadata(records, files) ==
    [k \in 1..Len(records) |->
        IF \E e \in doi_path_dict(files) : e.doi = records[k].doi
        THEN LET e == CHOOSE e \in doi_path_dict(files) : e.doi = records[k].doi
                 parts == Split(e.path, <<".">>)
             IN  [records[k] EXCEPT !.path = e.path, !.success = PyTrue,
                                    !.type = parts[Len(parts)]]
        ELSE records[k]]

InitUpdate ==
    /\ call = NoCall
    /\ dest = NoFiles
    /\ ELIFE_XML_INDEX = NoIndex
    /\ saved = NoSaved
    /\ dump_file \in UpdateFiles
    /\ input_file = dump_file
    /\ metadict = <<>>
    /\ futures = <<>>
    /\ disk \in ArtifactDisks
    /\ stop_event = "clear"
    /\ ip_pool = "None"
    /\ orch_pc = "step3"
    /\ detected = NotDetected
    /\ flushed = FALSE
    /\ prior = NoPrior
    /\ month_call = NoMonth
    /\ s3 = NoS3
    /\ saved_old = NoSavedOld
    /\ out_dir = "present"
    /\ index_calls = NoIndexCalls
    /\ driver = NoDriver

\* a call of update_metadata: the file is rewritten from the marked records
UpdateMetadata ==
    /\ orch_pc = "step3"
    /\ dump_file' = update_metadata(dump_file, disk)
    /\ orch_pc' = "step3 done"
    /\ UNCHANGED <<callVars, sideVars, input_file, metadict, futures, disk, stop_event,
                   ip_pool, detected, flushed>>

SpecUpdate == InitUpdate /\ [][UpdateMetadata]_vars

(***************************************************************************)
(* get_elife_xml_index step by step, called from several threads.  Every   *)
(* access goes through the global name, so the threads share one object;   *)
(* ret is what the returned object holds at the moment of the return.      *)
(***************************************************************************)
MaxIndexThreads == 2
MaxIndexCalls == 2

IndexThreads == 1..MaxIndexThreads

NewIndexThread == [pc |-> "idle", todo |-> {}, ret |-> {}, calls |-> 0]

InitIndex ==
    /\ call = NoCall
    /\ dest = NoFiles
    /\ ELIFE_XML_INDEX = NoIndex
    /\ saved = NoSaved
    /\ dump_file = <<>>
    /\ input_file = <<>>
    /\ metadict = <<>>
    /\ futures = <<>>
    /\ disk = {}
    /\ stop_event = "clear"
    /\ ip_pool = "None"
    /\ orch_pc = "idle"
    /\ detected = NotDetected
    /\ flushed = FALSE
    /\ prior = NoPrior
    /\ month_call = NoMonth
    /\ s3 = NoS3
    /\ saved_old = NoSavedOld
    /\ out_dir = "present"
    /\ index_calls \in [listing : ElifeListings \ {{}},
                        threads : {[t \in IndexThreads |-> NewIndexThread]}]
    /\ driver = NoDriver

IndexStep(t, thread) ==
    /\ index_calls' = [index_calls EXCEPT !.threads[t] = thread]
    /\ UNCHANGED <<call, dest, saved, orchVars, prior, month_call, s3, saved_old, out_dir,
                   driver>>

\* line 294: if ELIFE_XML_INDEX is None; when it is not, line 319 returns it
IndexEnter(t) ==
    LET th == index_calls.threads[t] IN
    /\ th.pc = "idle"
    /\ th.calls < MaxIndexCalls
    /\ IF ELIFE_XML_INDEX.built
       THEN IndexStep(t, [th EXCEPT !.pc = "returned", !.ret = ELIFE_XML_INDEX.entries,
                                    !.calls = @ + 1])
       ELSE IndexStep(t, [th EXCEPT !.pc = "l296", !.calls = @ + 1])
    /\ UNCHANGED ELIFE_XML_INDEX

\* line 296: ELIFE_XML_INDEX = {}
IndexReset(t) ==
    LET th == index_calls.threads[t] IN
    /\ th.pc = "l296"
    /\ ELIFE_XML_INDEX' = [built |-> TRUE, entries |-> {}]
    /\ IndexStep(t, [th EXCEPT !.pc = "l299"])

\* lines 299-303: the git tree request; an exception leaves the function
IndexRequest(t) ==
    LET th == index_calls.threads[t] IN
    /\ th.pc = "l299"
    /\ \E r \in {Exc, Ok(BodyHtml, index_calls.listing)} :
          IF r.st = "exc"
          THEN IndexStep(t, [th EXCEPT !.pc = "raised"])
          ELSE IndexStep(t, [th EXCEPT !.pc = "l305", !.todo = IndexOf(r.page).entries])
    /\ UNCHANGED ELIFE_XML_INDEX

\* lines 305-315: one matching item of the listing is entered
IndexAdd(t) ==
    LET th == index_calls.threads[t] IN
    /\ th.pc = "l305"
    /\ \E e \in th.todo :
          /\ ELIFE_XML_INDEX' = [ELIFE_XML_INDEX EXCEPT !.entries = @ \cup {e}]
          /\ IndexStep(t, [th EXCEPT !.todo = @ \ {e}])

\* lines 317-319: the lists are sorted and the index is returned
IndexReturn(t) ==
    LET th == index_calls.threads[t] IN
    /\ th.pc = "l305"
    /\ th.todo = {}
    /\ IndexStep(t, [th EXCEPT !.pc = "returned", !.ret = ELIFE_XML_INDEX.entries])
    /\ UNCHANGED ELIFE_XML_INDEX

\* the caller goes on and may call again
IndexCallerContinues(t) ==
    LET th == index_calls.threads[t] IN
    /\ th.pc \in {"returned", "raised"}
    /\ IndexStep(t, [th EXCEPT !.pc = "idle", !.ret = {}])
    /\ UNCHANGED ELIFE_XML_INDEX

IndexNext ==
    \E t \in IndexThreads :
        \/ IndexEnter(t)
        \/ IndexReset(t)
        \/ IndexRequest(t)
        \/ IndexAdd(t)
        \/ IndexReturn(t)
        \/ IndexCallerContinues(t)

SpecIndex == InitIndex /\ [][IndexNext]_vars

(***************************************************************************)
(* test_download_pdf.py: the module-level code that reads record_pdf.txt   *)
(* (lines 22-37) and download_pdf (lines 177-234), which calls             *)
(* save_pdf_from_dump_new for each keyword of target_keys.json.  The       *)
(* fields interrupted, recorded_pos and ended_by are kept for the          *)
(* properties only: where the last start was left by exit(), the position  *)
(* whose completion wrote record_pdf.txt, and how the last process ended.  *)
(***************************************************************************)
MaxKeywords == 3
MaxStarts == 2

Keywords == {"kw1", "kw2"}
KeywordLists == UNION {[1..n -> Keywords] : n \in 1..MaxKeywords}

\* the .jsonl of a keyword as download_doi left it
DriverDumps == {<<>>, <<PendingLine(DoiPlain)>>, <<UnannotatedLine(DoiPlain)>>}

InitDriver ==
    /\ call = NoCall
    /\ dest = NoFiles
    /\ ELIFE_XML_INDEX = NoIndex
    /\ saved = NoSaved
    /\ dump_file = <<>>
    /\ input_file = <<>>
    /\ metadict = <<>>
    /\ futures = <<>>
    /\ disk = {}
    /\ stop_event = "clear"
    /\ ip_pool = "None"
    /\ orch_pc = "idle"
    /\ detected = NotDetected
    /\ flushed = FALSE
    /\ prior = NoPrior
    /\ month_call = NoMonth
    /\ s3 = NoS3
    /\ saved_old = NoSavedOld
    /\ out_dir = "present"
    /\ index_calls = NoIndexCalls
    /\ driver \in [pc : {"loop"}, keywords : KeywordLists, pos : {1},
                   current_pdf_word : {""}, running_pdf : {FALSE}, record_pdf : {""},
                   start : {1}, dumps : [Keywords -> DriverDumps], last_called : {""},
                   interrupted : {0}, recorded_pos : {0}, ended_by : {"none"}]

DriverUnchanged == <<callVars, ip_pool, prior, month_call, s3, saved_old, out_dir, index_calls>>

\* the pool of the call has been shut down (the with block waits for it)
PoolDrained == \A i \in Futs : futures[i].st \notin {"PENDING", "RUNNING"}

\* lines 209-219 and 229-230 for one keyword: the call when running_pdf is
\* set, otherwise the comparison with the recorded word.  The directory of
\* another keyword is a sibling of this keyword's directory.
DriverKeyword ==
    /\ driver.pc = "loop"
    /\ driver.pos <= Len(driver.keywords)
    /\ LET keyword == driver.keywords[driver.pos]
           running == driver.running_pdf \/ driver.current_pdf_word = ""
       IN  IF running
           THEN /\ driver' = [driver EXCEPT !.pc = "call", !.running_pdf = TRUE,
                                            !.last_called = keyword]
                /\ dump_file' = driver.dumps[keyword]
                /\ input_file' = dump_file'
                /\ metadict' = <<>>
                /\ futures' = <<>>
                /\ detected' = NotDetected
                /\ flushed' = FALSE
                /\ orch_pc' = "start"
                /\ disk' = IF driver.last_called = keyword THEN disk
                           ELSE {File(SiblingDir, f.name, f.ext) : f \in disk}
           ELSE /\ driver' = [driver EXCEPT !.running_pdf = (driver.current_pdf_word = keyword),
                                            !.pos = @ + 1]
                /\ UNCHANGED <<dump_file, input_file, metadict, futures, detected, flushed,
                               orch_pc, disk>>
    /\ UNCHANGED <<DriverUnchanged, stop_event>>

\* pdf.py line 524: exit() raises SystemExit, which `except Exception` of
\* line 233 does not catch: the process ends, lines 225-230 are not reached
DriverExited ==
    /\ driver.pc = "call"
    /\ orch_pc = "exited"
    /\ PoolDrained
    /\ driver' = [driver EXCEPT !.pc = "ended", !.ended_by = "exit",
                                !.interrupted = driver.pos,
                                !.dumps[driver.keywords[driver.pos]] = dump_file]
    /\ orch_pc' = "idle"
    /\ UNCHANGED <<DriverUnchanged, stop_event, dump_file, input_file, metadict, futures,
                   detected, flushed, disk>>

\* lines 225-230 after the call returned: record_pdf.txt is rewritten
DriverRecord ==
    /\ driver.pc = "call"
    /\ orch_pc = "returned"
    /\ PoolDrained
    /\ LET keyword == driver.keywords[driver.pos] IN
       driver' = [driver EXCEPT !.pc = "loop", !.record_pdf = keyword,
                                !.current_pdf_word = keyword, !.running_pdf = TRUE,
                                !.recorded_pos = driver.pos, !.pos = @ + 1,
                                !.dumps[keyword] = dump_file]
    /\ orch_pc' = "idle"
    /\ UNCHANGED <<DriverUnchanged, stop_event, dump_file, input_file, metadict, futures,
                   detected, flushed, disk>>

\* lines 233-234: an exception of the call is printed and download_pdf ends
DriverCaught ==
    /\ driver.pc = "call"
    /\ orch_pc = "raised"
    /\ PoolDrained
    /\ driver' = [driver EXCEPT !.pc = "ended", !.ended_by = "error", !.interrupted = 0,
                                !.dumps[driver.keywords[driver.pos]] = dump_file]
    /\ orch_pc' = "idle"
    /\ UNCHANGED <<DriverUnchanged, stop_event, dump_file, input_file, metadict, futures,
                   detected, flushed, disk>>

\* line 232: every keyword was looked at
DriverFinish ==
    /\ driver.pc = "loop"
    /\ driver.pos > Len(driver.keywords)
    /\ driver' = [driver EXCEPT !.pc = "ended", !.ended_by = "complete", !.interrupted = 0]
    /\ UNCHANGED <<DriverUnchanged, stop_event, orchVars>>

\* the program is started again: lines 22-37 read record_pdf.txt, and the
\* main block creates a new event
DriverRestart ==
    /\ driver.pc = "ended"
    /\ driver.start < MaxStarts
    /\ driver' = [driver EXCEPT !.pc = "loop", !.pos = 1, !.start = @ + 1,
                                !.current_pdf_word = driver.record_pdf,
                                !.running_pdf = FALSE]
    /\ stop_event' = "clear"
    /\ UNCHANGED <<DriverUnchanged, dump_file, input_file, metadict, futures, detected,
                   flushed, orch_pc, disk>>

DriverNext ==
    \/ DriverKeyword
    \/ DriverRecord
    \/ DriverExited
    \/ DriverCaught
    \/ DriverFinish
    \/ DriverRestart
    \/ Next

SpecDriver == InitDriver /\ [][DriverNext]_vars

(***************************************************************************)
(* Properties of the strategy chain and of the strategy functions.         *)
(***************************************************************************)
Invocations == 1..Len(saved.invoked)
InvokedFns == {saved.invoked[i].fn : i \in Invocations}

\* C1: in a call of save_pdf no strategy is invoked after one that returned
\* success, every strategy is invoked at most once, and when doi succeeds
\* sci_hub and bioc_pmc are not invoked at all.
C1_ShortCircuit ==
    /\ \A i, j \in Invocations : i < j => ~saved.invoked[i].ok
    /\ \A i, j \in Invocations : i # j => saved.invoked[i].fn # saved.invoked[j].fn
    /\ (\E i \in Invocations : saved.invoked[i].fn = "doi" /\ saved.invoked[i].ok)
          => InvokedFns \cap {"sci_hub", "bioc_pmc"} = {}

\* a call in which arxiv declined and doi, the second strategy, succeeded
C1_Witness ==
    /\ saved.called
    /\ Len(saved.invoked) = 2
    /\ saved.invoked[1] = [fn |-> "arxiv", ok |-> FALSE]
    /\ saved.invoked[2] = [fn |-> "doi", ok |-> TRUE]
    /\ Truthy(saved.paper.success)

ChainRank(fn) ==
    CASE fn = "arxiv" -> 1 [] fn = "doi" -> 2 [] fn = "sci_hub" -> 3
      [] fn = "bioc_pmc" -> 4 [] OTHER -> 0

\* C2: save_pdf invokes strategies only in the order arxiv, doi, sci_hub,
\* bioc_pmc, and arxiv only for an identifier that contains "arxiv".
C2_FixedOrder ==
    /\ \A i \in Invocations : ChainRank(saved.invoked[i].fn) >= 1
    /\ \A i, j \in Invocations :
          i < j => ChainRank(saved.invoked[i].fn) < ChainRank(saved.invoked[j].fn)
    /\ "arxiv" \in InvokedFns => Contains(saved.paper.doi, <<"arxiv">>)

\* a call that went through the whole chain, and one that skipped arxiv
C2_Witness ==
    /\ saved.called
    /\ Len(saved.invoked) = 4
    /\ saved.invoked[1].fn = "arxiv"
    /\ saved.invoked[4].fn = "bioc_pmc"

\* C3: no strategy function raises to its caller; a failure is returned
\* as (False, None).
C3_NeverRaises ==
    call.fn # "none" =>
        /\ ~call.out.raised
        /\ ~call.out.ok => call.out.url = None

\* the body begins with the four bytes %PDF
HasMagic(body) ==
    /\ Len(body) >= 4
    /\ body[1] = "%" /\ body[2] = "P" /\ body[3] = "D" /\ body[4] = "F"

NotAPdf(r) == r.st = "ok" /\ ~HasMagic(r.body)

\* the requests of the call that ask for the artifact itself
ArtifactRequests ==
    IF call.fn \in {"arxiv", "wiley"} THEN 1..call.out.nreq
    ELSE IF call.fn \in {"doi", "sci_hub"} /\ call.out.nreq = 2 THEN {2}
    ELSE {}

\* C4: in arxiv, doi, sci_hub and wiley a 2xx response whose body does not
\* begin with %PDF is never the response written to the destination; when
\* it is the answer the call ends on, the call reports failure and leaves
\* the destination as it was; whatever is written begins with %PDF.
C4_SignatureValidated ==
    call.fn \in {"arxiv", "doi", "sci_hub", "wiley"} =>
        /\ \A i \in ArtifactRequests :
              NotAPdf(call.net[i]) => call.out.accepted # i
        /\ \A i \in ArtifactRequests :
              (i = call.out.nreq /\ NotAPdf(call.net[i]))
                  => ~call.out.ok /\ dest = call.before
        /\ \A k \in 1..Len(call.out.writes) :
              /\ call.out.writes[k].ext = "pdf"
              /\ HasMagic(call.out.writes[k].body)
              /\ call.out.accepted \in ArtifactRequests
              /\ call.out.writes[k].body = call.net[call.out.accepted].body
        /\ call.out.ok => call.out.writes # <<>>
        /\ dest.xml = call.before.xml
        /\ dest.pdf # call.before.pdf => HasMagic(dest.pdf)

\* doi got a 2xx answer to the citation_pdf_url request with %PDF at offset 1
C4_Witness ==
    /\ call.fn = "doi"
    /\ call.out.nreq = 2
    /\ call.net[2] = Ok(BodyShifted, "na")
    /\ ~call.out.ok
    /\ dest = call.before

(***************************************************************************)
(* Properties of the orchestrator                                          *)
(***************************************************************************)
Sanitized(d) == Replace(d, "/", "_")
ExistingArtifacts(d) == {f \in disk : f.name = Sanitized(d) /\ f.ext \in Exts}

\* C5: a task whose scan finds, in a directory next to (or equal to) the
\* output directory, a file named by the sanitized identifier with extension
\* pdf or xml finishes in that step: its record is successful with the path
\* and kind of such a file, and it has invoked no strategy and asked no proxy.
C5_Deduplication ==
    [][\A i \in Futs :
          LET d == futures[i].doi IN
          (/\ futures[i].at = "l352"
           /\ futures'[i].at # "l352"
           /\ IsTask(EntryOf(metadict, d))
           /\ d # None
           /\ ExistingArtifacts(d) # {})
          => /\ futures'[i].st = "FINISHED"
             /\ futures'[i].ncalls = 0
             /\ ~futures'[i].proxy
             /\ Truthy(EntryOf(metadict', d).success)
             /\ \E f \in ExistingArtifacts(d) :
                   /\ EntryOf(metadict', d).path = PathOf(f)
                   /\ EntryOf(metadict', d).type = <<f.ext>>]_vars

C5_Witness ==
    \E i \in Futs :
       /\ futures[i].st = "FINISHED"
       /\ futures[i].ncalls = 0
       /\ ip_pool = "proxy"
       /\ Truthy(EntryOf(metadict, futures[i].doi).success)
       /\ EntryOf(metadict, futures[i].doi).type = Xml
       /\ EntryOf(metadict, futures[i].doi).path =
             PathOf(File(SiblingDir, Sanitized(futures[i].doi), "xml"))

InputDois == {input_file[i].doi : i \in 1..Len(input_file)}
LastLine(file, d) ==
    file[CHOOSE i \in 1..Len(file) :
            file[i].doi = d /\ \A j \in 1..Len(file) : j > i => file[j].doi # d]
RecordsOf(file, d) == {i \in 1..Len(file) : file[i].doi = d}

\* C6: once the store is flushed, every identifier whose loaded record was
\* successful has a record in the file, and every record of it in the file is
\* the loaded one, field for field.
C6_NoRegress ==
    flushed =>
       \A d \in InputDois :
          Truthy(LastLine(input_file, d).success) =>
             /\ RecordsOf(dump_file, d) # {}
             /\ \A i \in RecordsOf(dump_file, d) : dump_file[i] = LastLine(input_file, d)

C6_Witness ==
    /\ flushed
    /\ \E d \in InputDois : Truthy(LastLine(input_file, d).success)
    /\ \E i \in Futs : futures[i].st = "FINISHED" /\ futures[i].ncalls > 0
                       /\ Truthy(EntryOf(metadict, futures[i].doi).success)

\* C7: whenever the function has returned to its caller or has exited the
\* process, the store has been flushed and the dump file holds the store.
C7_FlushBeforeEnd ==
    orch_pc \in {"returned", "exited"} => flushed /\ dump_file = metadict

C7_Witness ==
    /\ orch_pc = "returned"
    /\ detected.seen
    /\ \E i \in Futs : futures[i].st = "CANCELLED_AND_NOTIFIED"
    /\ dump_file # input_file

\* C8: once the stop event is set the process eventually exits; it exits only
\* after the flush, with no task left pending or running; and from the
\* moment the loop has seen the event (or the quota) no task is pending.
C8_StopFlushExit ==
    /\ [](orch_pc = "exited" =>
             /\ flushed
             /\ \A i \in Futs : futures[i].st \in {"FINISHED", "CANCELLED_AND_NOTIFIED"})
    /\ [](detected.seen => \A i \in Futs : futures[i].st # "PENDING")
    /\ (stop_event = "set" ~> orch_pc = "exited")

C8_Witness ==
    /\ orch_pc = "exited"
    /\ flushed
    /\ ListDirCount(disk) <= max_pdf_num
    /\ \E i \in Futs : futures[i].st = "CANCELLED_AND_NOTIFIED"

\* the run had more pending identifiers than the quota, with distinct file
\* names; every task that ran downloaded its artifact; the directories held
\* nothing before the run; the stop event was never set
QuotaScenario ==
    /\ orch_pc = "returned"
    /\ stop_event = "clear"
    /\ Len(futures) > max_pdf_num
    /\ \A i, j \in Futs : i # j => Sanitized(futures[i].doi) # Sanitized(futures[j].doi)
    /\ \A i \in Futs : futures[i].st = "FINISHED" =>
          futures[i].ncalls > 0 /\ Truthy(EntryOf(metadict, futures[i].doi).success)
    /\ \A f \in disk :
          /\ f.dir = OutDir
          /\ \E i \in Futs : futures[i].st = "FINISHED" /\ f.name = Sanitized(futures[i].doi)

\* C9: in that scenario the output directory ends with at least the quota
\* and at most the quota plus the tasks that were running when the quota was
\* detected, themselves at most max_workers, and some task never ran.
C9_QuotaBound ==
    QuotaScenario =>
       /\ ListDirCount(disk) >= max_pdf_num
       /\ ListDirCount(disk) <= max_pdf_num + detected.running
       /\ detected.running <= max_workers
       /\ \E i \in Futs : futures[i].st = "CANCELLED_AND_NOTIFIED"

\* C10: after the load the store has one entry for each identifier of the
\* input file and for no other; so has the flushed file, and the record of an
\* identifier comes from its last input line.
C10_OneEntryPerIdentifier ==
    /\ orch_pc # "start" =>
          /\ \A d \in InputDois : Cardinality(RecordsOf(metadict, d)) = 1
          /\ \A i \in 1..Len(metadict) : metadict[i].doi \in InputDois
    /\ flushed =>
          /\ \A d \in InputDois : Cardinality(RecordsOf(dump_file, d)) = 1
          /\ \A i \in 1..Len(dump_file) : dump_file[i].doi \in InputDois
          /\ \A i \in 1..Len(dump_file) :
                LET last == LastLine(input_file, dump_file[i].doi) IN
                /\ dump_file[i].is_materials = last.is_materials
                /\ ~IsTask(last) => dump_file[i] = last

C10_Witness ==
    /\ flushed
    /\ Len(dump_file) < Len(input_file)
    /\ \E i \in Futs : futures[i].st = "FINISHED" /\ futures[i].ncalls > 0

FlaggedNegative(r) == "is_materials" \in DOMAIN r /\ r.is_materials = PyFalse
AlreadySuccessful(r) == "success" \in DOMAIN r /\ Truthy(r.success)
Dispatched(d) == \E i \in Futs : futures[i].doi = d

\* C11: once the tasks are submitted, an identifier of the input has a task
\* exactly when its record is neither flagged negative nor already successful.
C11_Eligibility ==
    orch_pc # "start" =>
       \A d \in InputDois :
          Dispatched(d) <=> ~(\/ FlaggedNegative(LastLine(input_file, d))
                              \/ AlreadySuccessful(LastLine(input_file, d)))

\* the destination without its artifact suffix, if it has one
DestinationStem(filepath) ==
    IF Len(filepath) > 2 /\ SubSeq(filepath, Len(filepath) - 1, Len(filepath)) = <<".", "pdf">>
    THEN SubSeq(filepath, 1, Len(filepath) - 2)
    ELSE filepath

Returned == saved.called /\ saved.error = "none" /\ ~saved.raised

\* C12: a record returned by save_pdf with success true has type pdf or xml,
\* path = destination stem + "." + type, a url, and type xml exactly when
\* bioc_pmc was the strategy that succeeded; with success false its type,
\* path and url are None.
C12_RecordShape ==
    Returned =>
       LET p == saved.paper IN
       IF Truthy(p.success)
       THEN /\ p.type \in {Pdf, Xml}
            /\ p.path = DestinationStem(saved.filepath) \o <<".">> \o p.type
            /\ p.url # None
            /\ p.type = Xml <=> saved.invoked[Len(saved.invoked)].fn = "bioc_pmc"
       ELSE p.type = None /\ p.path = None /\ p.url = None

Malformed(req) ==
    \/ req.metadata # "dict"
    \/ ~req.has_doi
    \/ req.filepath = "Path"
    \/ ~req.parent_exists

\* C19: a call of save_pdf whose metadata is not a mapping or has no "doi"
\* key, whose destination is not a string, or whose destination's parent
\* directory is missing, raises an error; it has invoked no strategy, written
\* no file and left the record as it was given.
C19_RejectsMalformed ==
    (saved.called /\ Malformed(saved.request)) =>
       /\ saved.error # "none"
       /\ saved.invoked = <<>>
       /\ saved.writes = <<>>
       /\ dest = saved.before
       /\ saved.paper = saved.given

C19_Witness ==
    /\ saved.called
    /\ saved.error = "ValueError"
    /\ saved.request.metadata = "dict" /\ saved.request.has_doi
    /\ saved.paper = StalePaper(DoiPlain)

\* the members of the chain that apply to an identifier (pdf.py:75)
Applicable(d) ==
    {"doi", "sci_hub", "bioc_pmc"} \cup (IF Contains(d, <<"arxiv">>) THEN {"arxiv"} ELSE {})

\* C20: when a call of save_pdf that passed validation leaves its record with
\* success false, every applicable strategy has been invoked and has
\* declined; no strategy's error has ended the chain.
C20_FailedOnlyWhenExhausted ==
    (saved.called /\ saved.error = "none" /\ ~Truthy(saved.paper.success)) =>
       /\ ~saved.raised
       /\ InvokedFns = Applicable(saved.paper.doi)
       /\ \A i \in Invocations : ~saved.invoked[i].ok

\* C17: the step of a task that comes after the duplicate scan uses no proxy
\* when no pool is given or the pool gives none and one proxy otherwise; in
\* every case it invokes the strategy chain, and the record it leaves is a
\* result of the chain.
C17_ProxyOptional ==
    [][\A i \in Futs :
          (futures[i].at = "l384" /\ futures'[i].at # "l384") =>
             LET d == futures[i].doi
                 e == EntryOf(metadict', d)
             IN  /\ futures'[i].proxies = (IF ip_pool = "proxy" THEN 1 ELSE 0)
                 /\ futures'[i].ncalls > 0
                 /\ \E r \in ChainResults[d] :
                       /\ r.ncalls = futures'[i].ncalls
                       /\ e.success = r.success /\ e.type = r.type
                       /\ e.path = r.path /\ e.url = r.url]_vars

C17_Witness ==
    /\ ip_pool = "empty"
    /\ \E i \in Futs :
          /\ futures[i].st = "FINISHED"
          /\ futures[i].proxy /\ futures[i].proxies = 0
          /\ futures[i].ncalls > 0
          /\ Truthy(EntryOf(metadict, futures[i].doi).success)

\* the records of a file, as a mapping: the set of its records
MappingOf(file) == {file[i] : i \in 1..Len(file)}

\* the second run has flushed, and no strategy succeeded in either run (so
\* no artifact appeared: only a successful strategy writes one)
SecondRunFlushed ==
    /\ prior.run = 2
    /\ flushed
    /\ ~prior.succeeded
    /\ ~StrategySucceeded

\* C13 as stated: the store flushed by the second run is the mapping the
\* first run flushed.
C13_RerunSameStore == SecondRunFlushed => MappingOf(dump_file) = MappingOf(prior.store)

\* C13, amended: the same, when the first run was not cut short by the quota
\* or the stop event.
C13_RerunSameStoreAfterFullRun ==
    (SecondRunFlushed /\ ~prior.cut) => MappingOf(dump_file) = MappingOf(prior.store)

C13_Witness ==
    /\ SecondRunFlushed
    /\ ~prior.cut
    /\ \E i \in Futs : futures[i].st = "FINISHED" /\ futures[i].ncalls > 0
    /\ \E i \in 1..Len(prior.store) : prior.store[i].success = PyFalse

\* C14: at every point of a run, the dump file holds a record for every
\* identifier of the input: a process stopped there leaves a complete store.
C14_CompleteSnapshot ==
    \A d \in InputDois : RecordsOf(dump_file, d) # {}

\* the lengths of the months, February by the Gregorian leap-year rule
DaysInMonth(year, month) ==
    IF month = 2
    THEN (IF (year % 400 = 0) \/ (year % 4 = 0 /\ year % 100 # 0) THEN 29 ELSE 28)
    ELSE <<31, 0, 31, 30, 31, 30, 31, 31, 30, 31, 30, 31>>[month]

\* C16: month_folder gives the month and year of the date, except on the last
\* day of a month, when it gives the following month (January of the next
\* year for 31 December).
C16_MonthRollover ==
    (month_call.called /\ ~month_call.raised) =>
       LET d == month_call.date IN
       IF d.day = DaysInMonth(d.year, d.month)
       THEN month_call.result =
               IF d.month = 12 THEN <<"January", "_", d.year + 1>>
               ELSE <<MonthNames[d.month + 1], "_", d.year>>
       ELSE month_call.result = <<MonthNames[d.month], "_", d.year>>

C16_Witness ==
    /\ month_call.called /\ ~month_call.raised
    /\ month_call.date = Date(2100, 2, 28)
    /\ month_call.result = <<"March", "_", 2100>>

\* C18: in a call of fallback_wiley_api every request is followed at once by
\* a sleep, before the next request and before the return.
C18_DelayAfterEveryAttempt ==
    call.fn = "wiley" =>
       \A k \in 1..Len(call.out.events) :
          call.out.events[k] = "request" =>
             /\ k < Len(call.out.events)
             /\ call.out.events[k + 1] \in {"sleep 10", "sleep 20"}

(***************************************************************************)
(* The archive locator                                                     *)
(***************************************************************************)
\* the candidates whose manifest contains the identifier token
Matching == {i \in ProbeIdx : s3.keys[i] # None
                              /\ manifest_matches(s3.keys[i], s3_token(s3.doi))}

Located == s3.pc \in {"fetch", "returned"}

NeverWrongNorTwice ==
    /\ s3.fetches <= 1
    /\ s3.target # 0 => s3.target \in Matching
    /\ Matching = {} =>
        /\ s3.target = 0 /\ s3.fetches = 0
        /\ s3.pc = "returned" => s3.result = "False"

C21_FailedLeavesNoFile ==
    (Returned /\ ~Truthy(saved.paper.success)) => dest = saved.before

\* the signature of an XML document: the declaration "<?xml" at offset 0
HasXmlSignature(body) ==
    /\ Len(body) >= 5
    /\ body[1] = "<" /\ body[2] = "?" /\ body[3] = "x" /\ body[4] = "m" /\ body[5] = "l"

\* C22: fallback_bioc_pmc reports success only with an .xml file written whose
\* body has the XML signature, and a 2xx answer of the XML endpoint without
\* that signature makes the call fail and leaves the destination as it was.
C22_XmlSignatureValidated ==
    call.fn = "bioc_pmc" =>
        /\ call.out.ok =>
            /\ call.out.writes # <<>>
            /\ \A k \in 1..Len(call.out.writes) :
                  /\ call.out.writes[k].ext = "xml"
                  /\ HasXmlSignature(call.out.writes[k].body)
        /\ (call.out.nreq = 2 /\ call.net[2].st = "ok"
                /\ ~HasXmlSignature(call.net[2].body))
              => ~call.out.ok /\ dest = call.before

\* the records of a file that lack an identifier (doi is null)
WithoutIdentifier(file) == {i \in 1..Len(file) : file[i].doi = None}

\* C23: no task is ever submitted for a record without an identifier, and a
\* flushed store holds for it the record the loaded store held.
C23_NoIdentifierNotScheduled ==
    /\ \A i \in Futs : futures[i].doi # None
    /\ flushed =>
          \A i \in WithoutIdentifier(dump_file) :
              dump_file[i] = LastLine(input_file, None)

\* the stop event is set, or the output directory holds more than the quota
StopOrQuota == stop_event = "set" \/ ListDirCount(disk) > max_pdf_num

\* C24: in a state where the stop event is set or the quota is exceeded, no
\* step takes a task that has not started into execution.
C24_NoStartAfterStop ==
    [][StopOrQuota =>
          \A i \in Futs :
              (futures[i].st = "PENDING" /\ i \in DOMAIN futures')
                  => futures'[i].st # "RUNNING"]_vars

\* C25: once the quota or the stop event has been detected and no task is
\* left in the queue, the orchestrator can go on (to the next completed
\* future or to the flush) whatever the tasks still running do: it never has
\* to wait for one of them.
C25_NoWaitForRunning ==
    (orch_pc = "loop" /\ detected.seen /\ Queued = {}) => ENABLED OrchStep

\* C26: the dump file is written only by the step of the orchestrator that
\* leaves the loop, once, with no task running; from then on no task runs and
\* the file holds every record of the store as its task left it.
C26_SingleWriterFlush ==
    [][/\ (dump_file' # dump_file \/ (flushed' /\ ~flushed)) =>
            /\ orch_pc = "loop" /\ orch_pc' = "l523"
            /\ ~flushed
            /\ RunningFuts = {}
            /\ futures' = futures /\ metadict' = metadict
       /\ flushed' =>
            /\ \A i \in DOMAIN futures' : futures'[i].st # "RUNNING"
            /\ dump_file' = metadict'
            /\ \A i \in DOMAIN futures' :
                  futures'[i].st = "FINISHED" =>
                      LastLine(dump_file', futures'[i].doi)
                          = EntryOf(metadict', futures'[i].doi)]_vars

\* flushed after the quota was detected with a task still running, which
\* then ran a strategy to success; its record in the file says so
C26_Witness ==
    /\ flushed
    /\ detected.seen /\ detected.running > 0
    /\ \E i \in Futs :
          /\ futures[i].st = "FINISHED" /\ futures[i].ncalls > 0
          /\ Truthy(LastLine(dump_file, futures[i].doi).success)

\* C27: no two futures of a run carry the same identifier, and a step that
\* changes an entry of the store after the load is the step of the one
\* running task of that entry's identifier; it changes no other entry.
C27_OwnEntryOnly ==
    [][/\ \A i, j \in DOMAIN futures' :
              i # j => futures'[i].doi # futures'[j].doi
       /\ orch_pc # "start" =>
            /\ Len(metadict') = Len(metadict)
            /\ \A k \in 1..Len(metadict) :
                  metadict'[k] # metadict[k] =>
                      \E i \in Futs :
                          /\ futures[i].st = "RUNNING"
                          /\ futures[i].doi = metadict[k].doi
                          /\ futures'[i] # futures[i]
                          /\ \A j \in Futs \ {i} : futures'[j] = futures[j]
                          /\ \A l \in 1..Len(metadict) :
                                l # k => metadict'[l] = metadict[l]]_vars

\* two tasks were running at once, both have finished before the loop took
\* either, one with an artifact and one without
C27_Witness ==
    \E i, j \in Futs :
        /\ i # j
        /\ futures[i].st = "FINISHED" /\ futures[j].st = "FINISHED"
        /\ ~futures[i].yielded /\ ~futures[j].yielded
        /\ futures[i].ncalls > 0 /\ futures[j].ncalls > 0
        /\ Truthy(EntryOf(metadict, futures[i].doi).success)
        /\ ~Truthy(EntryOf(metadict, futures[j].doi).success)

\* the positions of the requests in the events of the call
RequestEvents == {k \in 1..Len(call.out.events) : call.out.events[k] = "request"}

\* C28: a call of fallback_wiley_api issues at most max_attempts requests, its
\* last request is the first one answered by a valid PDF if there is one, and
\* between two consecutive requests the backoff sleep is taken.
C28_BoundedRetryWithBackoff ==
    call.fn = "wiley" =>
        /\ call.out.nreq <= max_attempts
        /\ Cardinality(RequestEvents) = call.out.nreq
        /\ \A i \in 1..call.out.nreq :
              (call.net[i].st = "ok" /\ HasMagic(call.net[i].body))
                  => (i = call.out.nreq /\ call.out.ok)
        /\ \A k \in RequestEvents :
              (\E l \in RequestEvents : l > k) => call.out.events[k + 1] = "sleep 20"

\* C29: in the sequence of answers the Elsevier API gave during the run, a
\* 401 is the last one: no request of fallback_elsevier_api follows it.
C29_NoRequestAfter401 ==
    \A k \in 1..Len(saved_old.elsevier) :
        saved_old.elsevier[k] = "401" => k = Len(saved_old.elsevier)

\* the slot holds a value: it is in the map and is not None
Filled(api_keys, slot) == api_keys[slot] \notin {Absent, None}

\* C30: a call of save_pdf_old invokes the Wiley strategy only with a filled
\* WILEY_TDM_API_TOKEN, the Elsevier strategy only with a filled
\* ELSEVIER_TDM_API_KEY, and the archive store only with both AWS slots filled.
C30_CredentialGate ==
    saved_old.called =>
        \A k \in 1..Len(saved_old.invoked) :
            LET fn == saved_old.invoked[k].fn IN
            /\ fn = "wiley" => Filled(saved_old.api_keys, "WILEY_TDM_API_TOKEN")
            /\ fn = "elsevier" => Filled(saved_old.api_keys, "ELSEVIER_TDM_API_KEY")
            /\ fn = "s3" => /\ Filled(saved_old.api_keys, "AWS_ACCESS_KEY_ID")
                            /\ Filled(saved_old.api_keys, "AWS_SECRET_ACCESS_KEY")

(***************************************************************************)
(* C31: the eLife index is memoized.  Once ELIFE_XML_INDEX is set it is    *)
(* never unset or replaced, a lookup that finds it set issues no listing   *)
(* request, a lookup issues at most one, and a lookup that downloads takes *)
(* the entry with the highest version the index holds for the article      *)
(* number of the identifier.                                               *)
(***************************************************************************)
ArticleNumber(doi) == doi[Len(doi)]

HighestVersion(index, num, v) ==
    /\ \E e \in index.entries : e.num = num /\ e.ver = v
    /\ \A e \in index.entries : e.num = num => e.ver <= v

C31_IndexMemoized ==
    [][ /\ ELIFE_XML_INDEX.built => ELIFE_XML_INDEX' = ELIFE_XML_INDEX
        /\ (call = NoCall /\ call' # NoCall /\ call'.fn = "elife") =>
              /\ call'.out.listing <= 1
              /\ ELIFE_XML_INDEX.built => call'.out.listing = 0
              /\ call'.out.ok =>
                    /\ call'.out.url[2] = ArticleNumber(call'.doi)
                    /\ HighestVersion(ELIFE_XML_INDEX', call'.out.url[2], call'.out.url[4])
      ]_vars

\* a lookup served from the memo downloads version 3 of an article listed with 1, 3, 2
C31_Witness ==
    /\ call # NoCall
    /\ call.fn = "elife"
    /\ call.out.ok
    /\ call.out.listing = 0
    /\ call.out.url[4] = 3
    /\ Cardinality({e \in ELIFE_XML_INDEX.entries : e.num = call.out.url[2]}) = 3

(***************************************************************************)
(* C32: in the archive search, once a probe has reported a match (its      *)
(* future is done with a true result), no probe that has not started       *)
(* begins, no probe is added, and the selected container does not change.  *)
(***************************************************************************)
MatchReported ==
    /\ s3.pc # "idle"
    /\ \E i \in ProbeIdx : s3.probes[i].st = "DONE" /\ s3.probes[i].res = "True"

ProbeBegins ==
    /\ s3.pc # "idle" /\ s3'.pc # "idle"
    /\ \E i \in ProbeIdx : s3.probes[i].st = "PENDING" /\ s3'.probes[i].st = "RUNNING"

NoNewProbe_TargetKept ==
    s3'.pc # "idle" =>
        /\ Len(s3'.probes) = Len(s3.probes)
        /\ s3.target # 0 => s3'.target = s3.target

C32_NoProbeAfterMatch ==
    [][ MatchReported => (~ProbeBegins /\ NoNewProbe_TargetKept) ]_vars

(***************************************************************************)
(* C32 as the code has it: the same from the moment the loop has taken the *)
(* match and cancelled the queued probes.  Then no future is queued any    *)
(* more, none begins, none is added, and the probes still running finish   *)
(* without changing the target.                                            *)
(***************************************************************************)
MatchTaken == s3.pc \in {"fetch", "returned"} /\ s3.target # 0

C32_NoProbeAfterMatchTaken ==
    [][ MatchTaken =>
           /\ \A i \in ProbeIdx : s3.probes[i].st # "PENDING"
           /\ ~ProbeBegins
           /\ NoNewProbe_TargetKept ]_vars

\* the match is taken, a queued probe was cancelled and another is in flight
C32_Witness ==
    /\ MatchTaken
    /\ \E i \in ProbeIdx : s3.probes[i].st = "CANCELLED"
    /\ \E i \in ProbeIdx : s3.probes[i].st = "RUNNING"

(***************************************************************************)
(* C33: when save_pdf_old routes the identifier through the archive        *)
(* locator and fallback_s3 returns True (the PDF is extracted to the       *)
(* destination), the returned record has success = true, type = "pdf" and  *)
(* path = the destination with the extension .pdf.                         *)
(***************************************************************************)
LocatorSucceeded ==
    /\ saved_old.called
    /\ \E k \in 1..Len(saved_old.invoked) :
          saved_old.invoked[k].fn = "s3" /\ saved_old.invoked[k].ok

C33_LocatorSuccessRecorded ==
    LocatorSucceeded =>
        /\ ~saved_old.raised
        /\ saved_old.paper.success = PyTrue
        /\ saved_old.paper.type = Pdf
        /\ saved_old.paper.path = with_suffix(pdf_file(OutDir, saved_old.paper.doi), "pdf")

(***************************************************************************)
(* C34: with the output directory missing or unwritable the run aborts     *)
(* before any task is submitted: no future exists, no strategy is invoked, *)
(* no record is modified in the store or in the file, and the call does    *)
(* not return normally.                                                    *)
(***************************************************************************)
C34_DirectoryErrorAbortsFirst ==
    out_dir # "present" =>
        /\ futures = <<>>
        /\ \A i \in Futs : futures[i].ncalls = 0
        /\ metadict \in {<<>>, load_dump(<<>>, input_file)}
        /\ dump_file = input_file
        /\ orch_pc # "returned"

(***************************************************************************)
(* C35: save_pdf_from_dump_new called without a stop event (stop_event =   *)
(* None, the declared default) on a dump with at least one pending         *)
(* identifier never ends by raising.                                       *)
(***************************************************************************)
HasPending(file) == Tasks(load_dump(<<>>, file)) # <<>>

C35_DefaultStopEventCompletes ==
    (stop_event = "None" /\ HasPending(input_file)) => orch_pc # "raised"

(***************************************************************************)
(* C36: the records of two distinct identifiers never name the same        *)
(* artifact file: neither by two tasks writing to the same destination nor *)
(* by the scan adopting the file of another identifier.                    *)
(***************************************************************************)
HasArtifact(paper) == Truthy(paper.success) /\ paper.path # None

C36_DistinctArtifacts ==
    \A i, j \in 1..Len(metadict) :
        (/\ metadict[i].doi # metadict[j].doi
         /\ HasArtifact(metadict[i])
         /\ HasArtifact(metadict[j]))
        => metadict[i].path # metadict[j].path

(***************************************************************************)
(* C39: after update_metadata every record whose artifact file exists (a   *)
(* file named by the identifier with "/" replaced by "_") is successful    *)
(* with the path of such a file and its extension as type, and every other *)
(* record is as it was.                                                    *)
(***************************************************************************)
ArtifactsOf(d) == {f \in disk : f.name = Replace(d, "/", "_")}

C39_MarksEveryArtifact ==
    orch_pc = "step3 done" =>
        \A k \in 1..Len(input_file) :
            IF ArtifactsOf(input_file[k].doi) # {}
            THEN /\ dump_file[k].success = PyTrue
                 /\ \E f \in ArtifactsOf(input_file[k].doi) :
                       dump_file[k].path = PathOf(f) /\ dump_file[k].type = <<f.ext>>
            ELSE dump_file[k] = input_file[k]

(***************************************************************************)
(* C37: every call of get_elife_xml_index that returns, returns an index   *)
(* that holds every (article number, version) entry of the listing.        *)
(***************************************************************************)
C37_IndexAlwaysComplete ==
    \A t \in IndexThreads :
        index_calls.threads[t].pc = "returned" =>
            index_calls.threads[t].ret = IndexOf(index_calls.listing).entries

(***************************************************************************)
(* C38: record_pdf.txt is rewritten only when the call of                  *)
(* save_pdf_from_dump_new for the keyword has returned normally, and then  *)
(* with that keyword; a call left by exit() leaves the record as it was.   *)
(* In the start that follows such an interruption the interrupted keyword  *)
(* is processed again, and no keyword up to and including the recorded one *)
(* is.                                                                     *)
(***************************************************************************)
RecordedOnlyAfterReturn ==
    driver'.record_pdf # driver.record_pdf =>
        /\ driver.pc = "call"
        /\ orch_pc = "returned"
        /\ driver'.record_pdf = driver.keywords[driver.pos]

\* a step of the keyword loop in the start after an interruption
AfterInterruption == driver.pc = "loop" /\ driver.interrupted > 0 /\ driver' # driver

ResumesAfterRecorded ==
    AfterInterruption =>
        /\ driver'.pc = "call" => driver.pos > driver.recorded_pos
        /\ (driver'.pc = "loop" /\ driver'.pos = driver.pos + 1) =>
              driver.pos # driver.interrupted

C38_RecordAndResume ==
    [][ (driver.pc # "none" /\ driver'.pc # "none") =>
           (RecordedOnlyAfterReturn /\ ResumesAfterRecorded) ]_vars

====
